---- MODULE Spec2Model ----
(***************************************************************************)
(* KaliPi: the dashboard's background DataCollector (src/dashboard/data.py), *)
(* the agent's command registry (src/agent/commands.py), the agent's HTTP   *)
(* request handler (src/agent/server.py) and the dashboard's apps launcher  *)
(* (src/dashboard/views/apps.py under the loop of src/dashboard/main.py).   *)
(*                                                                          *)
(* The specifications of the module:                                        *)
(*   Spec           the DataCollector: start()/stop(), the collector       *)
(*                  threads running _loop/_collect, and a reader of data    *)
(*   IsolationSpec  one collector thread whose cycles each meet one failing *)
(*                  source                                                  *)
(*   CounterSpec    one collector thread over successive CPU counters       *)
(*   ReaderSpec     one collector thread and a reader that changes the      *)
(*                  dicts it is given                                       *)
(*   CommandSpec    run_command over the COMMANDS registry and its handlers *)
(*   ServerSpec     KaliPiHandler answering one GET or POST request         *)
(*   ServeSpec      serve_forever taking the requests of several clients    *)
(*   TokenSpec      the token file changing between authorization checks    *)
(*   AppsSpec       Dashboard.run: touches and frames on the apps launcher  *)
(***************************************************************************)
EXTENDS Integers, Sequences, FiniteSets, TLC

VARIABLES
    \* ---- DataCollector (src/dashboard/data.py) ----
    _running,     \* self._running
    _data,        \* self._data, the published snapshot
    lock,         \* self.lock is held
    prev,         \* self._prev_idle / self._prev_total (absent until first set)
    pc,           \* position of each collector thread in _loop/_collect
    d,            \* each thread's local dict d being built by _collect
    env,          \* the readings the sources give each thread's current cycle
    started,      \* the subprocesses each thread's cycle in progress has started
    spawned,      \* number of threads start() has created
    now,          \* the wall clock at its latest reading, in ticks
    lastRead,     \* the dict the latest read of data returned, as it is now
    shared,       \* that dict is the very object self._data refers to
    origin,       \* history: who made _data ("init", "cycle" or "mixed")
    lastOrigin,   \* history: who made lastRead ("none" before the first read)
    cycles,       \* history: cycles begun
    lateWrite,    \* history: the latest publication found _running cleared
    \* ---- command registry (src/agent/commands.py) ----
    call,         \* the latest run_command invocation and its outcome
    calls,        \* run_command invocations made
    \* ---- HTTP API (src/agent/server.py) ----
    http,         \* the request the handler was given and what it did
    server,       \* serve_forever: the request being handled, those waiting
    auth,         \* the token file as it is, and the authorization checks made
    \* ---- apps launcher (src/dashboard/main.py, src/dashboard/views/apps.py) ----
    active_tab,   \* Dashboard.active_tab
    view          \* the AppsView object, and what its latest touch did

collectorVars == <<_running, _data, lock, prev, pc, d, env, started, spawned, now,
                   lastRead, origin, lastOrigin, cycles, lateWrite, shared>>
appsVars == <<active_tab, view>>
commandVars == <<call, calls, http, server, auth, appsVars>>
vars == <<collectorVars, commandVars>>

(***************************************************************************)
(* Bounds of the model.                                                     *)
(***************************************************************************)
\* threads start() may create in one run
MaxThreads == 2
\* collection cycles begun in one run, over all threads
MaxCycles == 2
\* clock ticks in a day: "%H:%M:%S" starts again at midnight
TicksPerDay == 2
\* clock ticks in one run: the run crosses one midnight
MaxClock == TicksPerDay
\* run_command invocations in one run
MaxCalls == 1
\* requests the clients of the agent send in one run
MaxRequests == 4
\* touches handled by one _handle_events, between two frames
MaxBatch == 2

Threads == 1..MaxThreads

(***************************************************************************)
(* Python values that may come out of the security-status JSON file: a     *)
(* value is tagged with its type so that a null or a string can sit where   *)
(* the code expects a number.                                               *)
(***************************************************************************)
PyInt(n) == [type |-> "int", n |-> n, items |-> <<>>]
PyStr(s) == [type |-> "str", n |-> 0, items |-> <<s>>]
PyList(s) == [type |-> "list", n |-> 0, items |-> s]
PyNone == [type |-> "NoneType", n |-> 0, items |-> <<>>]

\* Python's v == 0 for a tagged value
PyEqZero(v) == v.type = "int" /\ v.n = 0

\* dict.get(key, default) on a JSON object held as a record
DictGet(obj, key, default) == IF key \in DOMAIN obj THEN obj[key] ELSE default

\* round(n / den) for den > 0: Python rounds a half to the even neighbour
RoundDiv(n, den) ==
    LET q == n \div den
        r == n - q * den
    IN  IF 2 * r < den THEN q
        ELSE IF 2 * r > den THEN q + 1
        ELSE IF q % 2 = 0 THEN q ELSE q + 1

\* int(s) of a command's output: the decimal strings the model uses
IsNumeric(s) == s \in {"0", "1", "2", "3"}
IntOf(s) == CASE s = "0" -> 0 [] s = "1" -> 1 [] s = "2" -> 2 [] s = "3" -> 3

\* collected_at is a time of day in ticks; the "" of _empty sorts before all
NeverCollected == -1

\* time.strftime("%H:%M:%S"): the time of day, which wraps at midnight
strftime_hms(t) == t % TicksPerDay

(***************************************************************************)
(* DataCollector._empty: the all-default snapshot.                          *)
(***************************************************************************)
_empty ==
    [cpu_pct |-> 0, cpu_temp |-> 0,
     mem_used |-> 0, mem_total |-> 0, mem_pct |-> 0,
     disk_used |-> "?", disk_total |-> "?", disk_pct |-> 0,
     uptime |-> "?", load_avg |-> "?",
     wlan_ip |-> "disconnected", ts_ip |-> "offline", ts_state |-> "unknown",
     svc_ssh |-> "unknown", svc_tailscale |-> "unknown",
     svc_fail2ban |-> "unknown", svc_suricata |-> "unknown",
     svc_auditd |-> "unknown",
     alerts |-> PyInt(0), failed_ssh |-> PyInt(0), f2b_banned |-> PyInt(0),
     banned_ips |-> PyList(<<>>), last_check |-> PyStr("never"),
     recent_alerts |-> PyList(<<>>), network_devices |-> PyList(<<>>),
     collected_at |-> NeverCollected]

\* the keys of a snapshot
SnapshotFields == DOMAIN _empty

\* the fields merged from the security-status file
SecurityFields == {"alerts", "failed_ssh", "f2b_banned", "banned_ips",
                   "last_check", "recent_alerts", "network_devices"}

\* the (snapshot key, systemd unit) pairs of the services loop
MonitoredServices ==
    <<[key |-> "svc_ssh", unit |-> "ssh"],
      [key |-> "svc_tailscale", unit |-> "tailscaled"],
      [key |-> "svc_fail2ban", unit |-> "fail2ban"],
      [key |-> "svc_suricata", unit |-> "suricata"],
      [key |-> "svc_auditd", unit |-> "auditd"]>>

(***************************************************************************)
(* The readings one cycle gets from its sources.  A subprocess outcome is   *)
(* [kind, text, ws, err, rc]: kind "exit" (it ran: stdout is text followed  *)
(* by the whitespace ws, stderr is err, the return code is rc), "timeout"   *)
(* (subprocess.TimeoutExpired) or "error" (subprocess.run raised something  *)
(* else: the shell could not be spawned, the output could not be decoded).  *)
(***************************************************************************)
ExitWith(text, err, rc) ==
    [kind |-> "exit", text |-> text, ws |-> "\n", err |-> err, rc |-> rc]
Exit(text) == ExitWith(text, "", 0)
TimedOut == [kind |-> "timeout", text |-> "", ws |-> "", err |-> "", rc |-> 0]
ExecError == [kind |-> "error", text |-> "", ws |-> "", err |-> "", rc |-> 0]

\* every source answers
WorldOK ==
    [cpu |-> [ok |-> TRUE, idle |-> 80, total |-> 100],
     temp |-> [ok |-> TRUE, raw |-> 45678],
     mem |-> [ok |-> TRUE, MemTotal |-> 4096, MemAvailable |-> 1024],
     disk |-> [ok |-> TRUE, total |-> 320, free |-> 200],
     uptime |-> [ok |-> TRUE, secs |-> 93784],
     load |-> [ok |-> TRUE, words |-> <<"0.10", "0.20", "0.30", "1/100", "123">>],
     wlan |-> Exit("192.168.0.7"),
     ts_ip |-> Exit("100.64.0.1"),
     ts_state |-> Exit("Running"),
     svc |-> [u \in {"ssh", "tailscaled", "fail2ban", "suricata", "auditd"}
                |-> Exit("active")],
     sec |-> [state |-> "json", type |-> "object",
              obj |-> [alerts |-> PyInt(2), failed_ssh |-> PyInt(5),
                       f2b_banned |-> PyInt(1),
                       banned_ips |-> PyList(<<"10.0.0.9">>),
                       timestamp |-> PyStr("12:00"),
                       recent_alerts |-> PyList(<<"ET SCAN">>),
                       network_devices |-> PyList(<<"192.168.0.1">>)]],
     f2b |-> Exit("3")]

\* no source answers and there is no security-status file
WorldDown ==
    [cpu |-> [ok |-> FALSE, idle |-> 0, total |-> 0],
     temp |-> [ok |-> FALSE, raw |-> 0],
     mem |-> [ok |-> FALSE, MemTotal |-> 0, MemAvailable |-> 0],
     disk |-> [ok |-> FALSE, total |-> 0, free |-> 0],
     uptime |-> [ok |-> FALSE, secs |-> 0],
     load |-> [ok |-> FALSE, words |-> <<>>],
     wlan |-> TimedOut,
     ts_ip |-> ExecError,
     ts_state |-> Exit(""),
     svc |-> [u \in {"ssh", "tailscaled", "fail2ban", "suricata", "auditd"}
                |-> TimedOut],
     sec |-> [state |-> "absent", type |-> "object", obj |-> [x \in {} |-> PyNone]],
     f2b |-> ExecError]

\* later counters, no other source answers, and a security-status file
\* whose alerts value is null
WorldOdd ==
    [WorldDown EXCEPT
        !.cpu = [ok |-> TRUE, idle |-> 120, total |-> 200],
        !.sec = [state |-> "json", type |-> "object",
                 obj |-> [alerts |-> PyNone, f2b_banned |-> PyInt(0)]],
        !.f2b = Exit("2")]

\* every source answers and the status file counts no banned address, so
\* that the live fail2ban count is asked for
WorldLive == [WorldOK EXCEPT !.sec.obj.f2b_banned = PyInt(0)]

\* the sources of a cycle, by the snapshot key or the name of what they
\* feed; FailingSources adds three more ways for the status file to fail
\* and one more for the fail2ban count
Sources ==
    {"cpu", "temp", "mem", "disk", "uptime", "load", "wlan", "ts_ip", "ts_state",
     "svc_ssh", "svc_tailscale", "svc_fail2ban", "svc_suricata", "svc_auditd",
     "sec", "f2b"}
FailingSources ==
    Sources \cup {"sec_unreadable", "sec_invalid", "sec_list", "f2b_text"}

\* WorldLive but for one source, which fails: a file that cannot be read or
\* parsed, a helper that times out, cannot be run or prints nothing
Without(src) ==
    CASE src = "cpu" -> [WorldLive EXCEPT !.cpu.ok = FALSE]
      [] src = "temp" -> [WorldLive EXCEPT !.temp.ok = FALSE]
      [] src = "mem" -> [WorldLive EXCEPT !.mem.ok = FALSE]
      [] src = "disk" -> [WorldLive EXCEPT !.disk.ok = FALSE]
      [] src = "uptime" -> [WorldLive EXCEPT !.uptime.ok = FALSE]
      [] src = "load" -> [WorldLive EXCEPT !.load.ok = FALSE]
      [] src = "wlan" -> [WorldLive EXCEPT !.wlan = TimedOut]
      [] src = "ts_ip" -> [WorldLive EXCEPT !.ts_ip = ExecError]
      [] src = "ts_state" -> [WorldLive EXCEPT !.ts_state = Exit("")]
      [] src = "svc_ssh" -> [WorldLive EXCEPT !.svc["ssh"] = TimedOut]
      [] src = "svc_tailscale" -> [WorldLive EXCEPT !.svc["tailscaled"] = ExecError]
      [] src = "svc_fail2ban" -> [WorldLive EXCEPT !.svc["fail2ban"] = Exit("")]
      [] src = "svc_suricata" -> [WorldLive EXCEPT !.svc["suricata"] = TimedOut]
      [] src = "svc_auditd" -> [WorldLive EXCEPT !.svc["auditd"] = ExecError]
      [] src = "sec" -> [WorldLive EXCEPT !.sec.state = "absent"]
      [] src = "sec_unreadable" -> [WorldLive EXCEPT !.sec.state = "unreadable"]
      [] src = "sec_invalid" -> [WorldLive EXCEPT !.sec.state = "invalid"]
      [] src = "sec_list" -> [WorldLive EXCEPT !.sec.type = "list"]
      [] src = "f2b" -> [WorldLive EXCEPT !.f2b = TimedOut]
      [] src = "f2b_text" -> [WorldLive EXCEPT !.f2b = Exit("n/a")]

\* WorldLive with other CPU counters: some time later, later with more idle
\* time than time, and earlier (counters that went back).  The quotients
\* of their differences that lie halfway between two integers (5/8, 15/8)
\* are exact in binary floating point, where round() takes the even one
CounterWorlds == {"live", "cpu", "cpu_later", "cpu_idle", "cpu_back"}
WithCounters(w) ==
    CASE w = "cpu_later" -> [WorldLive EXCEPT !.cpu.idle = 85, !.cpu.total = 108]
      [] w = "cpu_idle" -> [WorldLive EXCEPT !.cpu.idle = 95, !.cpu.total = 108]
      [] w = "cpu_back" -> [WorldLive EXCEPT !.cpu.idle = 70, !.cpu.total = 90]

\* the readings a cycle of the collector threads may meet, by name
CycleWorlds == {"ok", "odd"}
Readings(w) ==
    CASE w = "ok" -> WorldOK
      [] w = "odd" -> WorldOdd
      [] w = "live" -> WorldLive
      [] w \in FailingSources -> Without(w)
      [] w \in {"cpu_later", "cpu_idle", "cpu_back"} -> WithCounters(w)
      [] OTHER -> WorldDown

(***************************************************************************)
(* dashboard/data.py _run: stdout stripped, or "" on any failure.           *)
(***************************************************************************)
dash_run(out) == IF out.kind = "exit" THEN out.text ELSE ""

\* x or default, for a string x
OrDefault(x, default) == IF x = "" THEN default ELSE x

(***************************************************************************)
(* DataCollector._collect, block by block.  Each block takes the dict dd    *)
(* built so far and the cycle's readings e and returns the dict after it.   *)
(***************************************************************************)
\* d = self._empty(); d["collected_at"] = time.strftime("%H:%M:%S")
CollectStart(clock) == [_empty EXCEPT !.collected_at = strftime_hms(clock)]

\* a CPU block that reports the idle share
CpuPctIdle(e, pv) ==
    IF ~e.cpu.ok \/ ~pv.set \/ e.cpu.total - pv.total <= 0 THEN 0
    ELSE RoundDiv(100 * (e.cpu.idle - pv.idle), e.cpu.total - pv.total)

\* the CPU block: the percentage against the stored counters
CpuPct(e, pv) ==
    IF ~e.cpu.ok THEN 0
    ELSE LET prev_idle == IF pv.set THEN pv.idle ELSE e.cpu.idle
             prev_total == IF pv.set THEN pv.total ELSE e.cpu.total
             diff_idle == e.cpu.idle - prev_idle
             diff_total == e.cpu.total - prev_total
         IN  IF diff_total > 0
             THEN RoundDiv(100 * (diff_total - diff_idle), diff_total)
             ELSE 0

\* a CPU block that stores counters whether or not it could read them
CpuPrevAlways(e, pv) == [set |-> TRUE, idle |-> e.cpu.idle, total |-> e.cpu.total]

\* self._prev_idle, self._prev_total after the CPU block
CpuPrev(e, pv) ==
    IF e.cpu.ok THEN [set |-> TRUE, idle |-> e.cpu.idle, total |-> e.cpu.total]
    ELSE pv

\* f"{days}d {hours}h {mins}m" and its shorter forms
FormatUptime(secs) ==
    LET days == secs \div 86400
        hours == (secs % 86400) \div 3600
        mins == (secs % 3600) \div 60
    IN  IF days > 0
        THEN ToString(days) \o "d " \o ToString(hours) \o "h "
                 \o ToString(mins) \o "m"
        ELSE IF hours > 0
        THEN ToString(hours) \o "h " \o ToString(mins) \o "m"
        ELSE ToString(mins) \o "m"

\* " ".join(words[:3])
JoinFirst3(words) ==
    LET n == IF Len(words) < 3 THEN Len(words) ELSE 3
        join[i \in 0..3] ==
            IF i = 0 THEN ""
            ELSE IF i = 1 THEN words[1]
            ELSE join[i - 1] \o " " \o words[i]
    IN  join[n]

\* temperature, memory, disk, uptime and load; disk sizes are in tenths of
\* a GiB, so total_gb = total / 10
CollectSystem(dd, e) ==
    LET mem_total == e.mem.MemTotal \div 1024
        mem_used == (e.mem.MemTotal - e.mem.MemAvailable) \div 1024
        used == e.disk.total - e.disk.free
    IN  [dd EXCEPT
           !.cpu_temp = IF e.temp.ok THEN e.temp.raw \div 1000 ELSE 0,
           !.mem_total = IF e.mem.ok THEN mem_total ELSE @,
           !.mem_used = IF e.mem.ok THEN mem_used ELSE @,
           !.mem_pct = IF e.mem.ok /\ mem_total > 0
                       THEN RoundDiv(100 * mem_used, mem_total) ELSE @,
           !.disk_total = IF e.disk.ok
                          THEN ToString(RoundDiv(e.disk.total, 10)) \o "G" ELSE @,
           !.disk_used = IF e.disk.ok
                         THEN ToString(used \div 10) \o "." \o ToString(used % 10)
                                  \o "G"
                         ELSE @,
           !.disk_pct = IF e.disk.ok
                        THEN IF e.disk.total > 0
                             THEN RoundDiv(100 * used, e.disk.total) ELSE 0
                        ELSE @,
           !.uptime = IF e.uptime.ok THEN FormatUptime(e.uptime.secs) ELSE @,
           !.load_avg = IF e.load.ok THEN JoinFirst3(e.load.words) ELSE @]

\* network helpers and service queries given up at the first that fails
CollectNetworkTogether(dd, e) ==
    LET svc(i) == dash_run(e.svc[MonitoredServices[i].unit])
    IN  IF \/ dash_run(e.wlan) = "" \/ dash_run(e.ts_ip) = ""
           \/ dash_run(e.ts_state) = ""
           \/ \E i \in 1..Len(MonitoredServices) : svc(i) = ""
        THEN dd
        ELSE [dd EXCEPT
                !.wlan_ip = dash_run(e.wlan),
                !.ts_ip = dash_run(e.ts_ip),
                !.ts_state = dash_run(e.ts_state),
                !.svc_ssh = svc(1),
                !.svc_tailscale = svc(2),
                !.svc_fail2ban = svc(3),
                !.svc_suricata = svc(4),
                !.svc_auditd = svc(5)]

\* the network helpers and the five service queries
CollectNetwork(dd, e) ==
    LET svc(i) == OrDefault(dash_run(e.svc[MonitoredServices[i].unit]), "unknown")
    IN  [dd EXCEPT
           !.wlan_ip = OrDefault(dash_run(e.wlan), "disconnected"),
           !.ts_ip = OrDefault(dash_run(e.ts_ip), "offline"),
           !.ts_state = OrDefault(dash_run(e.ts_state), "unknown"),
           !.svc_ssh = svc(1),
           !.svc_tailscale = svc(2),
           !.svc_fail2ban = svc(3),
           !.svc_suricata = svc(4),
           !.svc_auditd = svc(5)]

\* a merge that takes whatever JSON value the file holds for an object
MergeSecurityAnyJson(dd, e) ==
    IF e.sec.state = "json"
    THEN [dd EXCEPT
            !.alerts = DictGet(e.sec.obj, "alerts", PyInt(0)),
            !.failed_ssh = DictGet(e.sec.obj, "failed_ssh", PyInt(0)),
            !.f2b_banned = DictGet(e.sec.obj, "f2b_banned", PyInt(0)),
            !.banned_ips = DictGet(e.sec.obj, "banned_ips", PyList(<<>>)),
            !.last_check = DictGet(e.sec.obj, "timestamp", PyStr("never")),
            !.recent_alerts = DictGet(e.sec.obj, "recent_alerts", PyList(<<>>)),
            !.network_devices = DictGet(e.sec.obj, "network_devices", PyList(<<>>))]
    ELSE dd

\* the security-status file: merged when it is a file holding a JSON object;
\* any failure of open, json.load or sec.get leaves the defaults
MergeSecurity(dd, e) ==
    IF e.sec.state = "json" /\ e.sec.type = "object"
    THEN LET sec == e.sec.obj
         IN  [dd EXCEPT
                !.alerts = DictGet(sec, "alerts", PyInt(0)),
                !.failed_ssh = DictGet(sec, "failed_ssh", PyInt(0)),
                !.f2b_banned = DictGet(sec, "f2b_banned", PyInt(0)),
                !.banned_ips = DictGet(sec, "banned_ips", PyList(<<>>)),
                !.last_check = DictGet(sec, "timestamp", PyStr("never")),
                !.recent_alerts = DictGet(sec, "recent_alerts", PyList(<<>>)),
                !.network_devices = DictGet(sec, "network_devices", PyList(<<>>))]
    ELSE dd

\* a fallback that asks fail2ban whatever the merged count is
RecountAlways(dd) == TRUE

\* if d["f2b_banned"] == 0: the condition of the fallback
RecountAttempted(dd) == PyEqZero(dd.f2b_banned)

\* the live fail2ban count when the merged count is 0
Fail2banFallback(dd, e) ==
    IF RecountAttempted(dd)
    THEN LET raw == dash_run(e.f2b)
         IN  IF IsNumeric(raw) THEN [dd EXCEPT !.f2b_banned = PyInt(IntOf(raw))]
             ELSE dd
    ELSE dd

\* everything _collect does after the CPU block, up to return d
CollectRest(dd, e) ==
    Fail2banFallback(MergeSecurity(CollectNetwork(CollectSystem(dd, e), e), e), e)

\* the timeout every _run of _collect is given: the default of _run
DashTimeout == 5

\* the subprocesses a cycle starts after the CPU block, in the order of the
\* code, each with its command line and timeout: three network helpers,
\* one systemctl per monitored service, and fail2ban-client when the
\* fallback is taken (nothing before the status file writes f2b_banned, so
\* the merge alone decides)
DashRan(cmd) == [cmd |-> cmd, timeout |-> DashTimeout]
CollectRan(dd, e) ==
    <<DashRan("ip -4 addr show wlan0"), DashRan("tailscale ip -4"),
      DashRan("tailscale status --self --json")>>
    \o [i \in 1..Len(MonitoredServices) |->
           DashRan("systemctl is-active " \o MonitoredServices[i].unit)]
    \o (IF RecountAttempted(MergeSecurity(dd, e))
        THEN <<DashRan("fail2ban-client status sshd")>>
        ELSE <<>>)

(***************************************************************************)
(* agent/commands.py.  What a Python call does is a record: it returned     *)
(* value, or it raised exc; ran lists the subprocesses it started, each     *)
(* with its command line and timeout.                                       *)
(***************************************************************************)
\* TIMEOUT, the default of _run
TIMEOUT == 30

Returned(value, ran) == [raised |-> FALSE, value |-> value, exc |-> "", ran |-> ran]
Raised(exc, ran) == [raised |-> TRUE, value |-> [none |-> TRUE], exc |-> exc, ran |-> ran]

\* a _run that has no handler for a timeout
cmd_run_unguarded(out) ==
    IF out.kind = "exit"
    THEN Returned([stdout |-> out.text, stderr |-> out.err, rc |-> out.rc], <<>>)
    ELSE Raised("subprocess failed", <<>>)

\* _run: the stripped output and the return code, the timeout record when
\* subprocess.TimeoutExpired is raised; any other exception goes through
cmd_run(out) ==
    IF out.kind = "exit"
    THEN Returned([stdout |-> out.text, stderr |-> out.err, rc |-> out.rc], <<>>)
    ELSE IF out.kind = "timeout"
    THEN Returned([stdout |-> "", stderr |-> "command timed out", rc |-> -1], <<>>)
    ELSE Raised("subprocess failed", <<>>)

\* a handler that hands on only the output of its command
RunOneOutputOnly(cmd, timeout, out) ==
    LET r == cmd_run(out)
        ran == <<[cmd |-> cmd, timeout |-> timeout]>>
    IN  IF r.raised THEN Raised(r.exc, ran)
        ELSE Returned([stdout |-> r.value.stdout], ran)

\* return _run(cmd, timeout): what a handler that runs one command does
RunOne(cmd, timeout, out) ==
    LET r == cmd_run(out)
        ran == <<[cmd |-> cmd, timeout |-> timeout]>>
    IN  IF r.raised THEN Raised(r.exc, ran) ELSE Returned(r.value, ran)

\* time.strftime("%Y-%m-%dT%H:%M:%S%z"): date and time, which never wraps
strftime_iso(clock) == "T" \o ToString(clock)

\* The args a caller may pass: None, a mapping, or something else.
ArgNone == [type |-> "NoneType", map |-> <<>>]
ArgDict(m) == [type |-> "dict", map |-> m]
ArgStr == [type |-> "str", map |-> <<>>]

\* args or {}
ArgsOrEmpty(args) ==
    IF args.type = "dict" /\ DOMAIN args.map # {} THEN args
    ELSE IF args.type = "str" THEN args
    ELSE ArgDict(<<>>)

\* str(v) of a value found in args
Show(v) == IF v.type = "str" THEN v.items[1] ELSE "[]"

\* cmd_service_status's services
StatusServices == <<"ssh", "tailscaled", "fail2ban", "suricata", "auditd",
                    "kalipi-dashboard", "kalipi-agent">>

\* cmd_restart_service's allowed
RestartAllowed == {"kalipi-dashboard", "kalipi-agent", "fail2ban", "suricata"}

\* cmd_recent_logs's log_map
LogMap ==
    [security |-> "journalctl -u ssh --since '1 hour ago' --no-pager -n 50",
     suricata |-> "tail -n 50 /var/log/suricata/fast.log 2>/dev/null || echo 'no suricata log'",
     fail2ban |-> "tail -n 50 /var/log/fail2ban.log 2>/dev/null || echo 'no fail2ban log'",
     dashboard |-> "tail -n 50 /var/log/kalipi-dashboard.log 2>/dev/null || echo 'no dashboard log'",
     agent |-> "journalctl -u kalipi-agent --since '1 hour ago' --no-pager -n 50"]
LogSources == <<"security", "suricata", "fail2ban", "dashboard", "agent">>

\* the text of allowed inside the f-string
AllowedRepr == "['kalipi-dashboard', 'kalipi-agent', 'fail2ban', 'suricata']"

cmd_security_scan(args, out) ==
    RunOne("/opt/kalipi/scripts/security-check.sh", 120, out)

\* the loop over the services: the queries before the first one that raises
\* have run, and that exception leaves the handler
cmd_service_status(args, outs, clock) ==
    LET n == Len(StatusServices)
        query(i) == [cmd |-> "systemctl is-active " \o StatusServices[i],
                     timeout |-> 5]
        failing == {i \in 1..n : cmd_run(outs[StatusServices[i]]).raised}
        first == CHOOSE i \in failing : \A j \in failing : i <= j
    IN  IF failing # {}
        THEN Raised(cmd_run(outs[StatusServices[first]]).exc,
                    [i \in 1..first |-> query(i)])
        ELSE Returned(
                 [services |->
                      [u \in {StatusServices[i] : i \in 1..n} |->
                          OrDefault(cmd_run(outs[u]).value.stdout, "unknown")],
                  timestamp |-> strftime_iso(clock)],
                 [i \in 1..n |-> query(i)])

\* a restart handler that asks no list
cmd_restart_any(args, out) ==
    IF args.type # "dict"
    THEN Raised("'str' object has no attribute 'get'", <<>>)
    ELSE RunOne("systemctl restart " \o Show(DictGet(args.map, "service", PyStr(""))),
                TIMEOUT, out)

cmd_restart_service(args, out) ==
    IF args.type # "dict"
    THEN Raised("'str' object has no attribute 'get'", <<>>)
    ELSE LET svc == DictGet(args.map, "service", PyStr(""))
         IN  IF ~(svc.type = "str" /\ svc.items[1] \in RestartAllowed)
             THEN Returned([error |-> "service '" \o Show(svc)
                                          \o "' not in allowed list: "
                                          \o AllowedRepr], <<>>)
             ELSE RunOne("systemctl restart " \o svc.items[1], TIMEOUT, out)

cmd_network_scan(args, out) ==
    RunOne("nmap -sn 192.168.0.0/24 -oG - 2>/dev/null | grep 'Status: Up'", 60, out)

cmd_fail2ban_status(args, out) == RunOne("fail2ban-client status sshd", TIMEOUT, out)

cmd_tailscale_status(args, out) == RunOne("tailscale status", TIMEOUT, out)

cmd_disk_usage(args, out) == RunOne("df -h /", TIMEOUT, out)

cmd_recent_logs(args, out) ==
    IF args.type # "dict"
    THEN Raised("'str' object has no attribute 'get'", <<>>)
    ELSE LET source == DictGet(args.map, "source", PyStr("security"))
         IN  IF source.type # "str"
             THEN Raised("unhashable type: 'list'", <<>>)
             ELSE IF source.items[1] \notin DOMAIN LogMap
             THEN Returned([error |-> "unknown source: " \o source.items[1],
                            available |-> LogSources], <<>>)
             ELSE RunOne(LogMap[source.items[1]], TIMEOUT, out)

\* COMMANDS: the names of the registry, and the handler behind each
COMMANDS == {"security-scan", "service-status", "restart-service",
             "network-scan", "fail2ban-status", "tailscale-status",
             "disk-usage", "recent-logs"}

Handler(name, args, out, outs, clock) ==
    CASE name = "security-scan" -> cmd_security_scan(args, out)
      [] name = "service-status" -> cmd_service_status(args, outs, clock)
      [] name = "restart-service" -> cmd_restart_service(args, out)
      [] name = "network-scan" -> cmd_network_scan(args, out)
      [] name = "fail2ban-status" -> cmd_fail2ban_status(args, out)
      [] name = "tailscale-status" -> cmd_tailscale_status(args, out)
      [] name = "disk-usage" -> cmd_disk_usage(args, out)
      [] name = "recent-logs" -> cmd_recent_logs(args, out)

\* a lookup by COMMANDS[name], which raises for a name that is no key
LookupByIndex(name) ==
    IF name \in COMMANDS THEN Returned([found |-> TRUE], <<>>)
    ELSE Raised("KeyError", <<>>)

\* fn = COMMANDS.get(name): found or None
Lookup(name) == Returned([found |-> name \in COMMANDS], <<>>)

\* a dispatcher that lets the handler's exception through
Guarded_none(name, h) == h

\* try: ... except Exception as e: return {"error": str(e), "command": name}
Guarded(name, h) ==
    IF h.raised THEN Returned([error |-> h.exc, command |-> name], h.ran) ELSE h

\* run_command(name, args), given what the subprocesses do (out for a handler
\* that runs one, outs for the services of service-status) and the clock.
\* handler is what the handler did, or the lookup when no handler ran.
run_command(name, args, out, outs, clock) ==
    LET fn == Lookup(name)
    IN  IF fn.raised THEN [outcome |-> fn, handler |-> fn, handlers |-> 0]
        ELSE IF ~fn.value.found
        THEN [outcome |-> Returned([error |-> "unknown command: " \o name], <<>>),
              handler |-> fn, handlers |-> 0]
        ELSE LET h == Handler(name, ArgsOrEmpty(args), out, outs, clock)
                 stamped ==
                     IF h.raised THEN h
                     ELSE Returned([command |-> name,
                                    timestamp |-> strftime_iso(clock)] @@ h.value,
                                   h.ran)
             IN  [outcome |-> Guarded(name, stamped), handler |-> h,
                  handlers |-> 1]

(***************************************************************************)
(* What callers pass to run_command and what the subprocesses do.           *)
(***************************************************************************)
RequestNames == COMMANDS \cup {"bogus", "exec", ""}

RequestArgs ==
    {ArgNone, ArgDict(<<>>), ArgStr,
     ArgDict([service |-> PyStr("fail2ban")]),
     ArgDict([service |-> PyStr("ssh")]),
     ArgDict([service |-> PyList(<<>>)]),
     ArgDict([source |-> PyStr("suricata")]),
     ArgDict([source |-> PyStr("bogus")]),
     ArgDict([source |-> PyList(<<>>)])}

SubprocessOutcomes ==
    {Exit("done"), ExitWith("", "failed", 1), TimedOut, ExecError}

ServiceStates ==
    {Exit("active"), ExitWith("inactive", "", 3), Exit(""), TimedOut, ExecError}

\* every service active, but for one of them
ServiceOutcomes ==
    LET units == {StatusServices[i] : i \in 1..Len(StatusServices)}
    IN  {[u \in units |-> IF u = u1 THEN o1 ELSE Exit("active")] :
            u1 \in units, o1 \in ServiceStates}

AllActive == [u \in {StatusServices[i] : i \in 1..Len(StatusServices)} |-> Exit("active")]

NoCall == [name |-> "", args |-> ArgNone, out |-> Exit(""), outs |-> AllActive,
           outcome |-> Returned([none |-> TRUE], <<>>),
           handler |-> Returned([none |-> TRUE], <<>>), handlers |-> 0]

CommandInit ==
    /\ call = NoCall
    /\ calls = 0

\* one invocation of run_command, from the call to its return
RunCommand ==
    /\ calls < MaxCalls
    /\ calls' = calls + 1
    /\ \E clock \in now..MaxClock : \E args \in RequestArgs :
          /\ now' = clock
          /\ \/ \E name \in RequestNames \ {"service-status"} :
                   \E out \in SubprocessOutcomes :
                       call' = [name |-> name, args |-> args, out |-> out,
                                outs |-> AllActive]
                                   @@ run_command(name, args, out, AllActive, clock)
             \/ \E outs \in ServiceOutcomes :
                   call' = [name |-> "service-status", args |-> args,
                            out |-> Exit("active"), outs |-> outs]
                               @@ run_command("service-status", args,
                                              Exit("active"), outs, clock)
    /\ UNCHANGED <<_running, _data, lock, prev, pc, d, env, started, spawned, lastRead,
                   origin, lastOrigin, cycles, lateWrite, shared, http, server,
                   auth, appsVars>>

(***************************************************************************)
(* agent/server.py.  A request is its path, its headers and its body; the   *)
(* token file is read anew for each request.  What a handler method did is  *)
(* a record: the responses it sent, whether an exception left it, whether   *)
(* it read the request body, the subprocesses it started (own, by           *)
(* subprocess.run in the method itself, and all) and the registry handlers  *)
(* it called.                                                               *)
(***************************************************************************)
\* the token file: absent, or its text followed by whitespace
NoTokenFile == [exists |-> FALSE, text |-> "", ws |-> ""]
TokenFile(text) == [exists |-> TRUE, text |-> text, ws |-> "\n"]

\* _read_token: the stripped content, None when there is no file
_read_token(file) == IF file.exists THEN PyStr(file.text) ELSE PyNone

\* self.headers.get(name, default)
HeaderGet(headers, name, default) ==
    IF name \in DOMAIN headers THEN headers[name] ELSE default

Response(status, body) == [status |-> status, body |-> body]

Did(sent, raised, bodyRead, own, ran, handlers) ==
    [sent |-> sent, raised |-> raised, bodyRead |-> bodyRead, own |-> own,
     ran |-> ran, handlers |-> handlers]

\* a token check that lets every request through
_check_token_open(file, headers) == [ok |-> TRUE, sent |-> <<>>]

\* _check_token: True, or False after sending 401
_check_token(file, headers) ==
    LET token == _read_token(file)
    IN  IF token.type = "NoneType" \/ token.items[1] = ""
        THEN [ok |-> TRUE, sent |-> <<>>]
        ELSE IF HeaderGet(headers, "Authorization", "") = "Bearer " \o token.items[1]
        THEN [ok |-> TRUE, sent |-> <<>>]
        ELSE [ok |-> FALSE, sent |-> <<Response(401, [error |-> "unauthorized"])>>]

\* The body that comes with a request: none (Content-Length absent or 0),
\* bytes that are no JSON, or a JSON value.
NoBody == [kind |-> "empty", value |-> PyNone]
BadBody == [kind |-> "invalid", value |-> PyNone]
JsonBody(v) == [kind |-> "json", value |-> v]

\* _read_body: the parsed value, or None after sending 400
_read_body(body) ==
    IF body.kind = "empty"
    THEN [value |-> PyNone, sent |-> <<Response(400, [error |-> "empty body"])>>]
    ELSE IF body.kind = "invalid"
    THEN [value |-> PyNone, sent |-> <<Response(400, [error |-> "invalid JSON"])>>]
    ELSE [value |-> body.value, sent |-> <<>>]

\* a timeout passed on as the caller gave it
UncappedTimeout(v) == Returned(v.n, <<>>)

\* min(body.get("timeout", 30), 300); a value that is no number cannot be
\* compared
CappedTimeout(v) ==
    IF v.type = "int" THEN Returned(IF v.n < 300 THEN v.n ELSE 300, <<>>)
    ELSE Raised("'<' not supported", <<>>)

\* what subprocess.run does under the timeout it is given: with no time
\* left the command is killed before it can exit
Within(out, timeout) ==
    IF out.kind = "exit" /\ timeout <= 0 THEN TimedOut ELSE out

\* do_POST, path /api/exec, after the token check and with a body
PostExec(body, out, clock) ==
    IF body.type # "dict"
    THEN Did(<<>>, TRUE, TRUE, <<>>, <<>>, 0)
    ELSE LET shell_cmd == DictGet(body.map, "cmd", PyStr(""))
             timeout == CappedTimeout(DictGet(body.map, "timeout", PyInt(30)))
         IN  IF timeout.raised
             THEN Did(<<>>, TRUE, TRUE, <<>>, <<>>, 0)
             ELSE IF shell_cmd.items[1] = ""
             THEN Did(<<Response(400, [error |-> "missing 'cmd' field"])>>,
                      FALSE, TRUE, <<>>, <<>>, 0)
             ELSE LET cmd == shell_cmd.items[1]
                      ran == <<[cmd |-> cmd, timeout |-> timeout.value]>>
                      r == Within(out, timeout.value)
                  IN  IF r.kind = "exit"
                      THEN Did(<<Response(200,
                                     [cmd |-> cmd, stdout |-> r.text \o r.ws,
                                      stderr |-> r.err, rc |-> r.rc,
                                      timestamp |-> strftime_iso(clock)])>>,
                               FALSE, TRUE, ran, ran, 0)
                      ELSE IF r.kind = "timeout"
                      THEN Did(<<Response(200,
                                     [cmd |-> cmd, stdout |-> "",
                                      stderr |-> "timed out after "
                                          \o ToString(timeout.value) \o "s",
                                      rc |-> -1,
                                      timestamp |-> strftime_iso(clock)])>>,
                               FALSE, TRUE, ran, ran, 0)
                      ELSE Did(<<>>, TRUE, TRUE, ran, ran, 0)

\* list(COMMANDS.keys())
CommandKeys == <<"security-scan", "service-status", "restart-service",
                 "network-scan", "fail2ban-status", "tailscale-status",
                 "disk-usage", "recent-logs">>

\* cmd_name not in COMMANDS hashes cmd_name: a list or a dict has no hash
Hashable(v) == v.type \notin {"list", "dict"}

\* f"{cmd_name}" of a hashable JSON value (the model has names and null)
NameText(v) == IF v.type = "str" THEN v.items[1] ELSE "None"

\* do_POST, path /api/command, after the token check and with a body
PostCommand(body, out, outs, clock) ==
    IF body.type # "dict"
    THEN Did(<<>>, TRUE, TRUE, <<>>, <<>>, 0)
    ELSE LET cmd_name == DictGet(body.map, "command", PyStr(""))
             cmd_args == DictGet(body.map, "args", ArgDict(<<>>))
         IN  IF ~Hashable(cmd_name)
             THEN Did(<<>>, TRUE, TRUE, <<>>, <<>>, 0)
             ELSE IF cmd_name.type # "str" \/ cmd_name.items[1] \notin COMMANDS
             THEN Did(<<Response(400,
                            [error |-> "unknown command: " \o NameText(cmd_name),
                             available |-> CommandKeys])>>,
                      FALSE, TRUE, <<>>, <<>>, 0)
             ELSE LET result == run_command(cmd_name.items[1], cmd_args, out,
                                            outs, clock)
                  IN  IF result.outcome.raised
                      THEN Did(<<>>, TRUE, TRUE, <<>>, result.outcome.ran,
                               result.handlers)
                      ELSE Did(<<Response(200, result.outcome.value)>>, FALSE,
                               TRUE, <<>>, result.outcome.ran, result.handlers)

\* a do_POST that acts on the body whatever the token check said
do_POST_ungated(path, file, headers, body, out, outs, clock) ==
    LET gate == _check_token(file, headers)
        parsed == _read_body(body)
        acted == IF parsed.sent # <<>> \/ parsed.value.type = "NoneType"
                 THEN Did(parsed.sent, FALSE, TRUE, <<>>, <<>>, 0)
                 ELSE IF path = "/api/exec" THEN PostExec(parsed.value, out, clock)
                 ELSE PostCommand(parsed.value, out, outs, clock)
    IN  IF gate.ok THEN acted ELSE [acted EXCEPT !.sent = gate.sent]

\* do_POST
do_POST(path, file, headers, body, out, outs, clock) ==
    IF path \in {"/api/exec", "/api/command"}
    THEN LET gate == _check_token(file, headers)
             parsed == _read_body(body)
         IN  IF ~gate.ok THEN Did(gate.sent, FALSE, FALSE, <<>>, <<>>, 0)
             ELSE IF parsed.sent # <<>> \/ parsed.value.type = "NoneType"
             THEN Did(parsed.sent, FALSE, TRUE, <<>>, <<>>, 0)
             ELSE IF path = "/api/exec" THEN PostExec(parsed.value, out, clock)
             ELSE PostCommand(parsed.value, out, outs, clock)
    ELSE Did(<<Response(404, [error |-> "not found"])>>, FALSE, FALSE, <<>>,
             <<>>, 0)

\* _system_metrics: what it can read of temperature (tenths of a degree),
\* memory, disk (tenths of a GiB), uptime and load; percentages in tenths
_system_metrics(e) ==
    LET used_kb == e.mem.MemTotal - e.mem.MemAvailable
        used == e.disk.total - e.disk.free
        temp == [cpu_temp |-> IF e.temp.ok THEN PyInt(RoundDiv(e.temp.raw, 100))
                              ELSE PyNone]
        mem == IF e.mem.ok
               THEN [mem_total_mb |-> e.mem.MemTotal \div 1024,
                     mem_used_mb |-> used_kb \div 1024,
                     mem_pct |-> IF e.mem.MemTotal # 0
                                 THEN RoundDiv(1000 * used_kb, e.mem.MemTotal)
                                 ELSE 0]
               ELSE <<>>
        disk == IF e.disk.ok
                THEN [disk_total_gb |-> e.disk.total,
                      disk_used_gb |-> used,
                      disk_pct |-> IF e.disk.total # 0
                                   THEN RoundDiv(1000 * used, e.disk.total)
                                   ELSE 0]
                ELSE <<>>
        uptime == IF e.uptime.ok
                  THEN [uptime |-> ToString(e.uptime.secs \div 3600) \o "h"
                                       \o ToString((e.uptime.secs % 3600) \div 60)
                                       \o "m"]
                  ELSE <<>>
        load == IF e.load.ok THEN [load_avg |-> e.load.words[1]] ELSE <<>>
    IN  temp @@ mem @@ disk @@ uptime @@ load

\* _read_security_status: the parsed file, or an error object
_read_security_status(e) ==
    IF e.sec.state = "json" THEN e.sec.obj
    ELSE [error |-> "security-status.json not available"]

\* do_GET
do_GET(path, e, clock) ==
    IF path = "/api/health"
    THEN Did(<<Response(200, [status |-> "ok", hostname |-> "kalipi",
                              timestamp |-> strftime_iso(clock)])>>,
             FALSE, FALSE, <<>>, <<>>, 0)
    ELSE IF path = "/api/status"
    THEN Did(<<Response(200, [hostname |-> "kalipi",
                              timestamp |-> strftime_iso(clock),
                              live |-> _system_metrics(e),
                              security |-> _read_security_status(e),
                              commands |-> CommandKeys \o <<"exec">>])>>,
             FALSE, FALSE, <<>>, <<>>, 0)
    ELSE Did(<<Response(404, [error |-> "not found"])>>, FALSE, FALSE, <<>>,
             <<>>, 0)

(***************************************************************************)
(* The requests a client may send, and the token file they meet.            *)
(***************************************************************************)
TokenFiles == {NoTokenFile, TokenFile(""), TokenFile("s3cret")}

RequestHeaders ==
    {<<>>, [Authorization |-> "Bearer s3cret"], [Authorization |-> "Bearer wrong"],
     [Authorization |-> "s3cret"]}

PostPaths == {"/api/exec", "/api/command", "/api/health"}
GetPaths == {"/api/health", "/api/status", "/api/exec"}

\* timeouts a caller may ask for: none, zero, negative, small, the cap,
\* above the cap, and a string
CallerTimeouts ==
    {PyInt(0), PyInt(-5), PyInt(10), PyInt(300), PyInt(301), PyInt(86400),
     PyStr("60")}

ExecBodies ==
    {JsonBody(ArgDict([cmd |-> PyStr("id")])),
     JsonBody(ArgDict([cmd |-> PyStr("")])),
     JsonBody(ArgDict([timeout |-> PyInt(10)]))}
    \cup {JsonBody(ArgDict([cmd |-> PyStr("sleep 600"), timeout |-> t])) :
             t \in CallerTimeouts}

CommandBodies ==
    {JsonBody(ArgDict([command |-> PyStr(name)])) :
         name \in {"disk-usage", "restart-service", "exec", "service-status"}}
    \cup {JsonBody(ArgDict([command |-> PyStr(name), args |-> args])) :
             name \in {"restart-service", "recent-logs"},
             args \in {ArgDict([service |-> PyStr("fail2ban")]),
                       ArgDict([service |-> PyStr("ssh")]),
                       ArgDict([source |-> PyStr("bogus")]), ArgStr}}
    \cup {JsonBody(ArgDict([command |-> PyList(<<>>)])),
          JsonBody(ArgDict([command |-> PyNone])),
          JsonBody(ArgDict([command |-> PyStr("")]))}

RequestBodies ==
    {NoBody, BadBody, JsonBody(PyNone), JsonBody(PyList(<<>>)),
     JsonBody(ArgDict(<<>>))} \cup ExecBodies \cup CommandBodies

\* token files over time: TokenFiles and a second token; the headers of
\* the bearers of both
RotatedFiles == TokenFiles \cup {TokenFile("t2")}
RotatedHeaders == RequestHeaders \cup {[Authorization |-> "Bearer t2"]}

\* an authorization check: the file as it was, the headers, the verdict
NoCheck == [made |-> FALSE, file |-> NoTokenFile, headers |-> <<>>, ok |-> FALSE]
CheckOf(file, headers, ok) ==
    [made |-> TRUE, file |-> file, headers |-> headers, ok |-> ok]

\* a token remembered from the first check on
TokenFileAsFirstRead(a) == IF a.first.made THEN a.first.file ELSE a.file

\* with open(TOKEN_FILE) as f: the file as it is when _read_token is called
OpenTokenFile(a) == a.file

NoRequest ==
    [served |-> FALSE, method |-> "", path |-> "", file |-> NoTokenFile,
     headers |-> <<>>, body |-> NoBody, out |-> Exit("")]
        @@ Did(<<>>, FALSE, FALSE, <<>>, <<>>, 0)

ServerInit ==
    /\ http = NoRequest
    /\ server = [handling |-> "none", waiting |-> <<>>, answered |-> <<>>,
                 sent |-> 0]
    /\ auth = [file |-> NoTokenFile, first |-> NoCheck, last |-> NoCheck]

serverFrame == <<_running, _data, lock, prev, pc, d, env, started, spawned, lastRead,
                 origin, lastOrigin, cycles, lateWrite, shared, call, calls, server,
                 auth, appsVars>>

\* the server handles one POST request: do_POST from its call to its return
DoPost ==
    /\ ~http.served
    /\ \E clock \in now..MaxClock : \E file \in TokenFiles :
       \E headers \in RequestHeaders : \E path \in PostPaths :
          /\ now' = clock
          /\ \/ \E body \in RequestBodies : \E out \in SubprocessOutcomes :
                   http' = [served |-> TRUE, method |-> "POST", path |-> path,
                            file |-> file, headers |-> headers, body |-> body,
                            out |-> out]
                               @@ do_POST(path, file, headers, body, out,
                                          AllActive, clock)
             \/ \E outs \in ServiceOutcomes :
                   LET body == JsonBody(ArgDict([command |-> PyStr("service-status")]))
                   IN  http' = [served |-> TRUE, method |-> "POST", path |-> path,
                                file |-> file, headers |-> headers, body |-> body,
                                out |-> Exit("active")]
                                   @@ do_POST(path, file, headers, body,
                                              Exit("active"), outs, clock)
    /\ UNCHANGED serverFrame

\* the server handles one GET request: do_GET from its call to its return
DoGet ==
    /\ ~http.served
    /\ \E clock \in now..MaxClock : \E file \in TokenFiles :
       \E headers \in RequestHeaders : \E path \in GetPaths :
       \E w \in {"ok", "down"} :
          /\ now' = clock
          /\ http' = [served |-> TRUE, method |-> "GET", path |-> path,
                      file |-> file, headers |-> headers, body |-> NoBody,
                      out |-> Exit("")]
                         @@ do_GET(path, Readings(w), clock)
    /\ UNCHANGED serverFrame

(***************************************************************************)
(* dashboard/views/apps.py.  An app is the dict of its descriptor; the      *)
(* buttons of the confirmation dialog are dicts with only an _action.       *)
(* _confirm_pending is an app or None.  A touch position is known by the    *)
(* area it falls in and, in the content area, by the button of _buttons     *)
(* whose rect holds it (0: no rect does).                                   *)
(***************************************************************************)
App(name, cmd, confirm) ==
    [type |-> "dict", name |-> name, cmd |-> cmd, confirm |-> confirm, _action |-> ""]

DialogButton(action) ==
    [type |-> "dict", name |-> "", cmd |-> "", confirm |-> FALSE, _action |-> action]

None == [type |-> "NoneType", name |-> "", cmd |-> "", confirm |-> FALSE, _action |-> ""]

BUILTIN_ACTIONS ==
    <<App("Security Check", "/opt/kalipi/scripts/security-check.sh --cron", FALSE),
      App("Network Scan", "/opt/kalipi/scripts/security-check.sh --cron --devices", FALSE),
      App("Reboot", "sudo reboot", TRUE)>>

Reboot == BUILTIN_ACTIONS[3]

\* what /opt/kalipi/apps.d may hold when it is scanned: descriptors
\* {name, desc, cmd, icon?, color?, confirm?}
AppsDirs ==
    {<<>>, <<App("Wipe Logs", "/opt/kalipi/apps/wipe-logs.sh", TRUE)>>}

\* the grid never has more buttons than the built-in actions and the
\* descriptors of apps.d together
MaxButtons == Len(BUILTIN_ACTIONS) + 1

\* Dashboard.views[AppsTab] is the AppsView
TAB_COUNT == 5
AppsTab == 4

\* the touch handled latest by handle_touch: the button it hit, what was
\* pending and which dialog was on screen when it came, how many events of
\* the same batch were handled before it, the arguments of its _launch
\* calls and the apps given to subprocess.Popen
Touched(hit, self, called, popen) ==
    [hit |-> hit, pending |-> self._confirm_pending, dialog |-> self.dialog,
     after |-> self.events, called |-> called, popen |-> popen]

NoTouch == [hit |-> None, pending |-> None, dialog |-> None, after |-> 0,
            called |-> <<>>, popen |-> <<>>]

\* _scan_apps: the list is kept unless the scan interval has passed or the
\* list is empty
_scan_apps(self, due, dir) ==
    IF ~due /\ self._apps # <<>> THEN self._apps ELSE BUILTIN_ACTIONS \o dir

\* _render_confirm: the dialog for _confirm_pending, with its two buttons
_render_confirm(self) ==
    [self EXCEPT !._buttons = <<DialogButton("confirm_yes"), DialogButton("confirm_no")>>,
                 !.dialog = self._confirm_pending]

\* render: the dialog when an app awaits confirmation, else the grid with
\* one button per app
render(self, due, dir) ==
    LET scanned == [self EXCEPT !._apps = _scan_apps(self, due, dir), !._buttons = <<>>]
    IN  IF scanned._confirm_pending.type # "NoneType"
        THEN _render_confirm(scanned)
        ELSE [scanned EXCEPT !._buttons = scanned._apps, !.dialog = None]

\* a launcher none of whose buttons asks for confirmation
NoConfirm(app) == FALSE

\* app.get("confirm")
NeedsConfirm(app) == app.confirm

\* _launch: app.get on None raises AttributeError; an empty cmd starts
\* nothing; Popen is called with the cmd, and its failure is only reported
_launch(self, app, fails) ==
    IF app.type = "NoneType"
    THEN [raised |-> TRUE, _status_msg |-> self._status_msg, popen |-> <<>>]
    ELSE IF app.cmd = ""
    THEN [raised |-> FALSE, _status_msg |-> self._status_msg, popen |-> <<>>]
    ELSE [raised |-> FALSE,
          _status_msg |-> IF fails THEN "Failed to launch: " \o app.name
                          ELSE "Running: " \o app.name,
          popen |-> <<app>>]

\* the first button of _buttons whose rect holds pos, None when no rect does
Hit(self, pos) ==
    IF pos.i \in 1..Len(self._buttons) THEN self._buttons[pos.i] ELSE None

\* handle_touch
handle_touch(self, pos, fails) ==
    LET app == Hit(self, pos)
        yes == _launch(self, self._confirm_pending, fails)
        go  == _launch(self, app, fails)
    IN  IF app.type = "NoneType"
        THEN [self EXCEPT !.touch = Touched(app, self, <<>>, <<>>)]
        ELSE IF app._action = "confirm_yes"
        THEN IF yes.raised
             THEN [self EXCEPT !.raised = TRUE,
                               !.touch = Touched(app, self, <<self._confirm_pending>>, <<>>)]
             ELSE [self EXCEPT !._status_msg = yes._status_msg,
                               !._confirm_pending = None,
                               !.touch = Touched(app, self, <<self._confirm_pending>>, yes.popen)]
        ELSE IF app._action = "confirm_no"
        THEN [self EXCEPT !._confirm_pending = None,
                          !.touch = Touched(app, self, <<>>, <<>>)]
        ELSE IF NeedsConfirm(app)
        THEN [self EXCEPT !._confirm_pending = app,
                          !.touch = Touched(app, self, <<>>, <<>>)]
        ELSE [self EXCEPT !._status_msg = go._status_msg,
                          !.touch = Touched(app, self, <<app>>, go.popen)]

\* Dashboard.__init__: the first tab is active; AppsView.__init__
AppsInit ==
    /\ active_tab = 0
    /\ view = [_apps |-> <<>>, _buttons |-> <<>>, _confirm_pending |-> None,
               _status_msg |-> "", dialog |-> None, events |-> 0,
               raised |-> FALSE, touch |-> NoTouch]

(***************************************************************************)
(* The DataCollector after __init__.                                        *)
(***************************************************************************)
CollectorInit ==
    /\ _running = FALSE
    /\ _data = _empty
    /\ lock = FALSE
    /\ prev = [set |-> FALSE, idle |-> 0, total |-> 0]
    /\ pc = [t \in Threads |-> "unborn"]
    /\ d = [t \in Threads |-> _empty]
    /\ env = [t \in Threads |-> "none"]
    /\ started = [t \in Threads |-> <<>>]
    /\ spawned = 0
    /\ now = 0
    /\ lastRead = _empty
    /\ shared = FALSE
    /\ origin = "init"
    /\ lastOrigin = "none"
    /\ cycles = 0
    /\ lateWrite = FALSE

Init == CollectorInit /\ CommandInit /\ ServerInit /\ AppsInit

(***************************************************************************)
(* start() and stop().                                                      *)
(***************************************************************************)
\* start(): set the flag, create a thread running _loop and start it
Start ==
    /\ spawned < MaxThreads
    /\ _running' = TRUE
    /\ spawned' = spawned + 1
    /\ pc' = [pc EXCEPT ![spawned + 1] = "check"]
    /\ UNCHANGED <<_data, lock, prev, d, env, started, now, lastRead, origin,
                   lastOrigin, cycles, lateWrite, shared, commandVars>>

\* stop(): clear the flag
Stop ==
    /\ _running' = FALSE
    /\ UNCHANGED <<_data, lock, prev, pc, d, env, started, spawned, now, lastRead,
                   origin, lastOrigin, cycles, lateWrite, shared, commandVars>>

(***************************************************************************)
(* One collector thread: _loop and the _collect it calls.                   *)
(***************************************************************************)
threadFrame == <<_running, spawned, lastRead, lastOrigin,
                 commandVars>>

\* a loop that never looks at the flag
LoopForever(t) ==
    /\ pc[t] \in {"check", "sleep"}
    /\ cycles < MaxCycles
    /\ pc' = [pc EXCEPT ![t] = "begin"]
    /\ cycles' = cycles + 1
    /\ UNCHANGED <<now, _data, lock, prev, d, env, started, origin, lateWrite, shared,
                   _running, spawned, lastRead, lastOrigin, commandVars>>

\* while self._running: evaluated when the thread starts and each time
\* time.sleep(interval) returns; enter the body or leave the loop
LoopCheck(t) ==
    /\ pc[t] \in {"check", "sleep"}
    /\ IF _running
       THEN /\ cycles < MaxCycles
            /\ pc' = [pc EXCEPT ![t] = "begin"]
            /\ cycles' = cycles + 1
       ELSE /\ pc' = [pc EXCEPT ![t] = "exited"]
            /\ cycles' = cycles
    /\ UNCHANGED <<now, _data, lock, prev, d, env, started, origin, lateWrite, shared, threadFrame>>

\* _collect begins: the default dict stamped with the time of day, then the
\* CPU block, which reads and stores the counters kept on self.  The clock
\* is read here and nowhere else: it shows any time not before its latest
\* reading
CollectBeginIn(t, worlds) ==
    /\ pc[t] = "begin"
    /\ \E clock \in now..MaxClock : \E w \in worlds :
          /\ now' = clock
          /\ env' = [env EXCEPT ![t] = w]
          /\ d' = [d EXCEPT ![t] =
                     [CollectStart(clock) EXCEPT
                         !.cpu_pct = CpuPct(Readings(w), prev)]]
          /\ prev' = CpuPrev(Readings(w), prev)
    /\ started' = [started EXCEPT ![t] = <<>>]
    /\ pc' = [pc EXCEPT ![t] = "sources"]
    /\ UNCHANGED <<_data, lock, origin, cycles, lateWrite, shared, threadFrame>>

CollectBegin(t) == CollectBeginIn(t, CycleWorlds)

\* temperature to load, the network helpers, the service queries, the
\* security-status file and the fail2ban fallback; _collect returns d
CollectSources(t) ==
    /\ pc[t] = "sources"
    /\ d' = [d EXCEPT ![t] = CollectRest(d[t], Readings(env[t]))]
    /\ started' = [started EXCEPT ![t] = CollectRan(d[t], Readings(env[t]))]
    /\ env' = [env EXCEPT ![t] = "none"]
    /\ pc' = [pc EXCEPT ![t] = "publish"]
    /\ UNCHANGED <<now, _data, lock, prev, origin, cycles, lateWrite, shared, threadFrame>>

\* an exception that no handler of _collect catches leaves _collect and
\* _loop, which has no handler either: the thread ends
CollectRaise(t) ==
    /\ pc[t] \in {"begin", "sources"}
    /\ pc' = [pc EXCEPT ![t] = "crashed"]
    /\ d' = [d EXCEPT ![t] = _empty]
    /\ env' = [env EXCEPT ![t] = "none"]
    /\ UNCHANGED <<now, _data, lock, prev, started, origin, cycles, lateWrite, shared,
                   threadFrame>>

\* with self.lock: (the loop's)
PublishAcquire(t) ==
    /\ pc[t] = "publish"
    /\ ~lock
    /\ lock' = TRUE
    /\ pc' = [pc EXCEPT ![t] = "locked"]
    /\ UNCHANGED <<now, _data, prev, d, env, started, origin, cycles, lateWrite, shared, threadFrame>>

\* a publication that updates the published dict in place, stamp first
PublishedInPlace(current, fresh) ==
    [current EXCEPT !.collected_at = fresh.collected_at,
                    !.cpu_pct = fresh.cpu_pct]

\* what self._data holds after self._data = fresh
Published(current, fresh) == fresh

\* a swap that does not give the lock back
PublishSwapKeep(t) ==
    /\ pc[t] = "locked"
    /\ _data' = Published(_data, d[t])
    /\ origin' = IF _data' = d[t] THEN "cycle" ELSE "mixed"
    /\ d' = [d EXCEPT ![t] = _empty]
    /\ started' = [started EXCEPT ![t] = <<>>]
    /\ lateWrite' = ~_running
    /\ shared' = FALSE
    /\ pc' = [pc EXCEPT ![t] = "sleep"]
    /\ UNCHANGED <<now, lock, prev, env, cycles, threadFrame>>

\* self._data = fresh, and the lock is released
PublishSwap(t) ==
    /\ pc[t] = "locked"
    /\ _data' = Published(_data, d[t])
    /\ origin' = IF _data' = d[t] THEN "cycle" ELSE "mixed"
    /\ lock' = FALSE
    /\ d' = [d EXCEPT ![t] = _empty]
    /\ started' = [started EXCEPT ![t] = <<>>]
    /\ lateWrite' = ~_running
    /\ shared' = FALSE
    /\ pc' = [pc EXCEPT ![t] = "sleep"]
    /\ UNCHANGED <<now, prev, env, cycles, threadFrame>>

ThreadStep(t) ==
    \/ LoopCheck(t)
    \/ CollectBegin(t)
    \/ CollectSources(t)
    \/ CollectRaise(t)
    \/ PublishAcquire(t)
    \/ PublishSwap(t)

(***************************************************************************)
(* A reader of the data property.                                           *)
(***************************************************************************)
\* a data property that hands out self._data itself
dict_itself(m) == [value |-> m, same |-> TRUE]

\* dict(m): another dict with the keys and values of m
dict_copy(m) == [value |-> m, same |-> FALSE]

\* the data property: with self.lock: return dict(self._data).  The reader
\* waits while a publishing thread holds the lock; the copy has the keys and
\* values of the dict published at that moment
DataRead ==
    /\ ~lock
    /\ lastRead' = dict_copy(_data).value
    /\ shared' = dict_copy(_data).same
    /\ lastOrigin' = origin
    /\ UNCHANGED <<_running, _data, lock, prev, pc, d, env, started, spawned,
                   now, origin, cycles, lateWrite, commandVars>>

\* the top-level assignments a reader makes to the dict it was given
ReaderEdits ==
    {[key |-> "cpu_pct", value |-> 99], [key |-> "wlan_ip", value |-> "edited"]}

\* the reader assigns to a key of the dict it holds; the published dict
\* changes with it when it is the same object
ReaderModify ==
    /\ lastOrigin # "none"
    /\ \E w \in ReaderEdits :
          /\ lastRead[w.key] # w.value
          /\ lastRead' = [lastRead EXCEPT ![w.key] = w.value]
          /\ _data' = IF shared THEN [_data EXCEPT ![w.key] = w.value] ELSE _data
    /\ origin' = IF _data' = _data THEN origin ELSE "mixed"
    /\ UNCHANGED <<_running, lock, prev, pc, d, env, started, spawned, now,
                   lastOrigin, cycles, lateWrite, shared, commandVars>>

Next ==
    \/ Start
    \/ Stop
    \/ \E t \in Threads : ThreadStep(t)
    \/ DataRead

Spec == Init /\ [][Next]_vars

\* One collector thread whose cycles meet readings in which a single
\* source fails.
IsolationNext ==
    \/ Start /\ spawned = 0
    \/ LoopCheck(1)
    \/ CollectBeginIn(1, FailingSources \cup {"live", "ok"})
    \/ CollectSources(1)
    \/ PublishAcquire(1)
    \/ PublishSwap(1)

IsolationSpec == Init /\ [][IsolationNext]_vars

\* One collector thread whose cycles meet changing CPU counters, and a
\* reader.
CounterNext ==
    \/ Start /\ spawned = 0
    \/ LoopCheck(1)
    \/ CollectBeginIn(1, CounterWorlds)
    \/ CollectSources(1)
    \/ PublishAcquire(1)
    \/ PublishSwap(1)
    \/ DataRead

CounterSpec == Init /\ [][CounterNext]_vars

\* one collector thread and a reader that changes the dicts it is given
ReaderNext ==
    \/ Start /\ spawned = 0
    \/ LoopCheck(1)
    \/ CollectBegin(1)
    \/ CollectSources(1)
    \/ PublishAcquire(1)
    \/ PublishSwap(1)
    \/ DataRead
    \/ ReaderModify

ReaderSpec == Init /\ [][ReaderNext]_vars

CommandNext == RunCommand

CommandSpec == Init /\ [][CommandNext]_vars

ServerNext == DoPost \/ DoGet

ServerSpec == Init /\ [][ServerNext]_vars

(***************************************************************************)
(* agent/server.py main: HTTPServer(...).serve_forever().  HTTPServer is    *)
(* socketserver.TCPServer without a threading or forking mix-in: the loop   *)
(* accepts one connection, runs the handler (do_GET or do_POST) to its      *)
(* return, and only then accepts the next; connections made meanwhile wait  *)
(* in the listen queue.                                                     *)
(***************************************************************************)
\* the requests of this part, by what the handler does for them
RequestKinds == {"command", "exec", "status", "health"}

\* the kinds whose handler waits on a subprocess, up to its timeout
RunsSubprocess(kind) == kind \in {"command", "exec"}

serveFrame == <<collectorVars, call, calls, http, auth, appsVars>>

\* a client connects and sends a request: the kernel queues the connection
Connect ==
    /\ server.sent < MaxRequests
    /\ \E kind \in RequestKinds :
          server' = [server EXCEPT !.waiting = Append(@, kind),
                                   !.sent = @ + 1]
    /\ UNCHANGED serveFrame

\* serve_forever takes the next connection and calls its handler
HandleBegin ==
    /\ server.handling = "none"
    /\ server.waiting # <<>>
    /\ server' = [server EXCEPT !.handling = Head(server.waiting),
                                !.waiting = Tail(@)]
    /\ UNCHANGED serveFrame

\* the handler returns, its response sent; the loop goes round
HandleEnd ==
    /\ server.handling # "none"
    /\ server' = [server EXCEPT !.handling = "none",
                                !.answered = Append(@, server.handling)]
    /\ UNCHANGED serveFrame

ServeNext == Connect \/ HandleBegin \/ HandleEnd

ServeSpec == Init /\ [][ServeNext]_vars

(***************************************************************************)
(* The token file over several requests: an administrator creates,          *)
(* rewrites or removes /opt/kalipi/agent/.token between requests, and each  *)
(* protected request calls _check_token, which calls _read_token.           *)
(***************************************************************************)
tokenFrame == <<collectorVars, call, calls, http, server, appsVars>>

\* the token file is created, rewritten or removed
TokenChange ==
    /\ \E file \in RotatedFiles \ {auth.file} : auth' = [auth EXCEPT !.file = file]
    /\ UNCHANGED tokenFrame

\* a protected request arrives and _check_token is called for it
AuthCheck ==
    /\ \E headers \in RotatedHeaders :
          auth' = [auth EXCEPT
                     !.first = IF @ = NoCheck THEN CheckOf(auth.file, headers,
                                                           _check_token(OpenTokenFile(auth), headers).ok)
                               ELSE @,
                     !.last = CheckOf(auth.file, headers,
                                      _check_token(OpenTokenFile(auth), headers).ok)]
    /\ UNCHANGED tokenFrame

TokenNext == TokenChange \/ AuthCheck

TokenSpec == Init /\ [][TokenNext]_vars

(***************************************************************************)
(* dashboard/main.py run: _handle_events gives every queued touch to        *)
(* _on_touch, then _render draws the active view, and so on.  An exception  *)
(* of handle_touch leaves run.                                              *)
(***************************************************************************)
appsFrame == <<collectorVars, call, calls, http, server, auth>>

Positions ==
    {[area |-> "tabs", i |-> t] : t \in 0..(TAB_COUNT - 1)}
        \cup {[area |-> "content", i |-> b] : b \in 0..MaxButtons}

\* _on_touch: a touch in the tab bar selects a tab, any other goes to the
\* active view
OnTouch ==
    /\ ~view.raised
    /\ view.events < MaxBatch
    /\ \E pos \in Positions, fails \in BOOLEAN :
          LET handled == [view EXCEPT !.events = @ + 1]
          IN  IF pos.area = "tabs"
              THEN /\ active_tab' = pos.i
                   /\ view' = handled
              ELSE /\ active_tab' = active_tab
                   /\ view' = IF active_tab = AppsTab
                              THEN [handle_touch(view, pos, fails) EXCEPT !.events = @ + 1]
                              ELSE handled
    /\ UNCHANGED appsFrame

\* _render: the active view is rendered
Frame ==
    /\ ~view.raised
    /\ \E due \in BOOLEAN, dir \in AppsDirs :
          view' = IF active_tab = AppsTab
                  THEN [render(view, due, dir) EXCEPT !.events = 0]
                  ELSE [view EXCEPT !.events = 0]
    /\ UNCHANGED <<active_tab, appsFrame>>

AppsNext == OnTouch \/ Frame

AppsSpec == Init /\ [][AppsNext]_vars

(***************************************************************************)
(* Claims about the DataCollector, checked under Spec.                      *)
(***************************************************************************)
\* a thread that has been started and has not ended
Alive(t) == pc[t] \in {"check", "begin", "sources", "publish", "locked", "sleep"}

\* s is what one whole cycle builds from one set of readings at one time
\* (the CPU percentage apart, which also depends on the stored counters)
BuiltByOneCycle(s) ==
    \E w \in CycleWorlds : \E clock \in 0..MaxClock :
        [s EXCEPT !.cpu_pct = 0] =
            [CollectRest(CollectStart(clock), Readings(w)) EXCEPT !.cpu_pct = 0]

\* C1 as stated: every read of data returns a snapshot fully constructed by
\* a single completed collection cycle.
C1_ReadIsFromACycle ==
    lastOrigin # "none" => (lastOrigin = "cycle" /\ BuiltByOneCycle(lastRead))

\* C1 as amended: every read of data returns either the all-default
\* snapshot put there by the constructor or a snapshot fully constructed by
\* a single completed cycle; never a mix of two cycles and never a dict that
\* is still being built.
C1_ReadIsWhole ==
    lastOrigin # "none" =>
        \/ lastOrigin = "init" /\ lastRead = _empty
        \/ lastOrigin = "cycle" /\ BuiltByOneCycle(lastRead)

\* a read has returned a cycle's snapshot while a later cycle is building
\* a different dict
C1_Witness ==
    /\ lastOrigin = "cycle"
    /\ \E t \in Threads : pc[t] = "sources" /\ d[t] # lastRead

\* a snapshot has exactly the documented keys and no null among the values
\* merged from the security-status file (the other values are numbers and
\* strings the code itself makes)
FullyPopulated(s) ==
    /\ DOMAIN s = SnapshotFields
    /\ \A f \in SecurityFields : s[f].type # "NoneType"

\* C2: in every reachable state the snapshot returned by data has exactly
\* the documented fields and each holds a non-null value, whatever the
\* sources and the security-status file give.
C2_SnapshotFullyPopulated == FullyPopulated(lastRead) /\ FullyPopulated(_data)

\* C3: of two successive reads of data, the later one's collected_at is not
\* earlier than the earlier one's.
C3_CollectedAtMonotonic ==
    [][lastOrigin # "none" => lastRead.collected_at <= lastRead'.collected_at]_vars

\* C4: after any sequence of start() and stop() at most one sampling thread
\* is alive.
C4_AtMostOneThread == Cardinality({t \in Threads : Alive(t)}) <= 1

\* the position that follows p inside one pass of the loop body
NextInCycle(p) ==
    CASE p = "begin" -> "sources"
      [] p = "sources" -> "publish"
      [] p = "publish" -> "locked"
      [] p = "locked" -> "sleep"
      [] OTHER -> p

\* after stop(), no step of a cycle in progress waits for the flag
C5_CycleNotBlocked ==
    ~_running =>
        \A t \in Threads :
            /\ pc[t] = "begin" => ENABLED CollectBegin(t)
            /\ pc[t] = "sources" => ENABLED CollectSources(t)
            /\ pc[t] = "publish" /\ ~lock => ENABLED PublishAcquire(t)
            /\ pc[t] = "locked" => ENABLED PublishSwap(t)
            /\ pc[t] \in {"check", "sleep"} => ENABLED LoopCheck(t)

C6_ExceptionDoesNotEndThread == \A t \in Threads : pc[t] # "crashed"

\* the source a world of IsolationSpec lacks, and the fields a source feeds
FailedSource(w) ==
    IF w \in {"sec_unreadable", "sec_invalid", "sec_list"} THEN "sec"
    ELSE IF w = "f2b_text" THEN "f2b"
    ELSE w
FieldsOf(src) ==
    CASE src = "cpu" -> {"cpu_pct"}
      [] src = "temp" -> {"cpu_temp"}
      [] src = "mem" -> {"mem_used", "mem_total", "mem_pct"}
      [] src = "disk" -> {"disk_used", "disk_total", "disk_pct"}
      [] src = "uptime" -> {"uptime"}
      [] src = "load" -> {"load_avg"}
      [] src = "wlan" -> {"wlan_ip"}
      [] src = "sec" -> {"alerts", "failed_ssh", "f2b_banned", "banned_ips",
                         "last_check", "recent_alerts", "network_devices"}
      [] src = "f2b" -> {"f2b_banned"}
      [] OTHER -> {src}

\* the snapshot of a cycle in which every source answered: the values
\* sampled from WorldLive, but for cpu_pct, which depends on the counters
\* of the cycle before
SampledLive ==
    [cpu_temp |-> 45, mem_used |-> 3, mem_total |-> 4, mem_pct |-> 75,
     disk_used |-> "12.0G", disk_total |-> "32G", disk_pct |-> 38,
     uptime |-> "1d 2h 3m", load_avg |-> "0.10 0.20 0.30",
     wlan_ip |-> "192.168.0.7", ts_ip |-> "100.64.0.1", ts_state |-> "Running",
     svc_ssh |-> "active", svc_tailscale |-> "active", svc_fail2ban |-> "active",
     svc_suricata |-> "active", svc_auditd |-> "active",
     alerts |-> PyInt(2), failed_ssh |-> PyInt(5), f2b_banned |-> PyInt(3),
     banned_ips |-> PyList(<<"10.0.0.9">>), last_check |-> PyStr("12:00"),
     recent_alerts |-> PyList(<<"ET SCAN">>),
     network_devices |-> PyList(<<"192.168.0.1">>)]

\* the dict a cycle returns when src alone failed: the fields only src feeds
\* are at their defaults, f2b_banned holds what its other source gave, and
\* every other field holds the value sampled in that cycle
Isolated(src, cpu_pct, got) ==
    /\ DOMAIN got = SnapshotFields
    /\ got.cpu_pct = IF src = "cpu" THEN 0 ELSE cpu_pct
    /\ \A f \in DOMAIN SampledLive :
          got[f] = IF f \notin FieldsOf(src) THEN SampledLive[f]
                   ELSE IF f # "f2b_banned" THEN _empty[f]
                   ELSE IF src = "sec" THEN PyInt(3)
                   ELSE PyInt(0)

\* C20: when a single source of a cycle fails, only fields fed by that
\* source are left at their defaults and every field fed by another source
\* holds the value sampled from it in the same cycle.
C20_FieldIsolation ==
    [][ /\ (pc[1] = "begin" /\ pc'[1] = "sources" /\ env'[1] \in FailingSources) =>
             d'[1].cpu_pct = IF env'[1] = "cpu" THEN 0
                             ELSE CpuPct(WorldLive, prev)
        /\ (pc[1] = "sources" /\ pc'[1] = "publish" /\ env[1] \in FailingSources) =>
             Isolated(FailedSource(env[1]), d[1].cpu_pct, d'[1])
        /\ (pc[1] = "locked" /\ pc'[1] = "sleep") => _data' = d[1] ]_vars

\* a cycle in which only the status file was missing has been published:
\* its fields are at their defaults, the banned count is the live one, and
\* the other sources show
C20_Witness ==
    /\ origin = "cycle"
    /\ _data.alerts = PyInt(0)
    /\ _data.last_check = PyStr("never")
    /\ _data.f2b_banned = PyInt(3)
    /\ _data.svc_auditd = "active"
    /\ _data.disk_used = "12.0G"
    /\ _data.uptime = "1d 2h 3m"

\* the step of thread 1 that runs the CPU block, and what it read
CpuBlockStep == pc[1] = "begin" /\ pc'[1] = "sources"
CountersRead == Readings(env'[1]).cpu
DiffIdle == CountersRead.idle - prev.idle
DiffTotal == CountersRead.total - prev.total

\* C21 as stated: the first cycle gives 0; a later cycle whose total went up
\* gives exactly 100*(1 - diff_idle/diff_total), within [0,100] for
\* 0 <= diff_idle <= diff_total; a total that did not go up gives 0; and
\* that is what the cycle publishes.
C21_CpuPctExact ==
    [][ /\ (CpuBlockStep /\ CountersRead.ok) =>
             IF ~prev.set THEN d'[1].cpu_pct = 0
             ELSE IF DiffTotal > 0
             THEN /\ d'[1].cpu_pct * DiffTotal = 100 * (DiffTotal - DiffIdle)
                  /\ (0 <= DiffIdle /\ DiffIdle <= DiffTotal)
                        => (0 <= d'[1].cpu_pct /\ d'[1].cpu_pct <= 100)
             ELSE d'[1].cpu_pct = 0
        /\ (pc[1] = "sources" /\ pc'[1] = "publish") => d'[1].cpu_pct = d[1].cpu_pct
        /\ (pc[1] = "locked" /\ pc'[1] = "sleep") => _data'.cpu_pct = d[1].cpu_pct
      ]_vars

\* C21: the first cycle gives 0; a later cycle whose total went up gives
\* an integer nearest to 100*(1 - diff_idle/diff_total), at most a half
\* away from it, within [0,100] for 0 <= diff_idle <= diff_total; a total
\* that did not go up gives 0; and that is what the cycle publishes.
C21_CpuPctRounded ==
    [][ /\ (CpuBlockStep /\ CountersRead.ok) =>
             IF ~prev.set THEN d'[1].cpu_pct = 0
             ELSE IF DiffTotal > 0
             THEN LET off == d'[1].cpu_pct * DiffTotal - 100 * (DiffTotal - DiffIdle)
                  IN  /\ 2 * off <= DiffTotal
                      /\ -2 * off <= DiffTotal
                      /\ (0 <= DiffIdle /\ DiffIdle <= DiffTotal)
                            => (0 <= d'[1].cpu_pct /\ d'[1].cpu_pct <= 100)
             ELSE d'[1].cpu_pct = 0
        /\ (pc[1] = "sources" /\ pc'[1] = "publish") => d'[1].cpu_pct = d[1].cpu_pct
        /\ (pc[1] = "locked" /\ pc'[1] = "sleep") => _data'.cpu_pct = d[1].cpu_pct
      ]_vars

\* counters (80,100) then (85,108): 37.5 per cent, published as 38
C21_Witness ==
    /\ origin = "cycle"
    /\ prev = [set |-> TRUE, idle |-> 85, total |-> 108]
    /\ cycles = 2
    /\ _data.cpu_pct = 38

\* C29: the stored counters become a cycle's reading exactly when the cycle
\* could read its counters; a cycle that could not publishes 0 and leaves
\* them as they were; no other step touches them, and they are no field of
\* a snapshot.
C29_StoredCounters ==
    /\ [](/\ DOMAIN _data = SnapshotFields
          /\ DOMAIN lastRead = SnapshotFields
          /\ SnapshotFields \cap {"_prev_idle", "_prev_total"} = {})
    /\ [][ /\ (CpuBlockStep /\ CountersRead.ok) =>
                 prev' = [set |-> TRUE, idle |-> CountersRead.idle,
                          total |-> CountersRead.total]
           /\ (CpuBlockStep /\ ~CountersRead.ok) =>
                 (prev' = prev /\ d'[1].cpu_pct = 0)
           /\ ~CpuBlockStep => prev' = prev
           /\ (pc[1] = "locked" /\ pc'[1] = "sleep") =>
                 _data'.cpu_pct = d[1].cpu_pct ]_vars

\* a cycle could not read the counters after one that could: it published
\* 0 and the counters of the first are still stored
C29_Witness ==
    /\ origin = "cycle"
    /\ cycles = 2
    /\ _data.cpu_pct = 0
    /\ _data.cpu_temp = 45
    /\ prev = [set |-> TRUE, idle |-> 80, total |-> 100]
    /\ lastRead = _data

\* the worlds in which the security-status file is absent, unreadable, not
\* JSON, or JSON that is no object
StatusFileFailures == {"sec", "sec_unreadable", "sec_invalid", "sec_list"}

\* the fields C22 names: those of the status file but the banned count
StatusOnlyFields == SecurityFields \ {"f2b_banned"}

\* C22: a cycle that finds the security-status file absent, unreadable, not
\* JSON or no JSON object goes on to publish, and the fields merged from the
\* file (the banned count apart) are all at their defaults in what it
\* returns and publishes.
C22_StatusFileDefaults ==
    [][ /\ (pc[1] = "sources" /\ env[1] \in StatusFileFailures) =>
             /\ pc'[1] = "publish"
             /\ \A f \in StatusOnlyFields : d'[1][f] = _empty[f]
        /\ (pc[1] = "publish" /\ pc'[1] # "publish") => pc'[1] = "locked"
        /\ (pc[1] = "locked" /\ pc'[1] # "locked") =>
             (pc'[1] = "sleep" /\ _data' = d[1]) ]_vars

\* a cycle that could not use the status file has been published:
\* the fields of the file are at their defaults, the others were sampled
C22_Witness ==
    /\ origin = "cycle"
    /\ pc[1] = "sleep"
    /\ \A f \in StatusOnlyFields : _data[f] = _empty[f]
    /\ _data.wlan_ip = "192.168.0.7"
    /\ _data.cpu_temp = 45

\* the banned count the status file gives a cycle: 0 when there is no file,
\* no JSON object in it, or no such key
MergedCount(e) ==
    IF e.sec.state = "json" /\ e.sec.type = "object"
    THEN DictGet(e.sec.obj, "f2b_banned", PyInt(0))
    ELSE PyInt(0)

\* fail2ban-client is among the subprocesses st
Recount(st) == \E i \in DOMAIN st : st[i].cmd = "fail2ban-client status sshd"

\* the recount gave no number: it timed out, could not be run, or printed
\* something else
RecountFailed(e) == e.f2b.kind # "exit" \/ ~IsNumeric(e.f2b.text)

\* C23: fail2ban-client is run only by a cycle whose merged banned count
\* is zero; when it then fails or prints no number the count of the cycle
\* is 0; a cycle whose merged count is not zero runs no recount and its
\* count is the merged one; the count of the cycle is the one published.
C23_BannedCountFallback ==
    [][ /\ (pc[1] = "sources" /\ pc'[1] = "publish") =>
             LET e == Readings(env[1])
                 merged == MergedCount(e)
             IN  /\ Recount(started'[1]) => PyEqZero(merged)
                 /\ (PyEqZero(merged) /\ RecountFailed(e)) =>
                       d'[1].f2b_banned = PyInt(0)
                 /\ ~PyEqZero(merged) =>
                       (d'[1].f2b_banned = merged /\ ~Recount(started'[1]))
        /\ (pc[1] = "locked" /\ pc'[1] = "sleep") =>
             _data'.f2b_banned = d[1].f2b_banned ]_vars

\* a cycle whose file counted one banned address has been published with
\* that count, and the next, whose file counts none, has asked fail2ban,
\* got no number and returns 0
C23_Witness ==
    /\ origin = "cycle"
    /\ _data.f2b_banned = PyInt(1)
    /\ pc[1] = "publish"
    /\ d[1].alerts = PyInt(2)
    /\ d[1].f2b_banned = PyInt(0)
    /\ Recount(started[1])

\* C27: the lock is held exactly while some thread is at the swap, by that
\* thread alone, which then swaps and releases it in one step without
\* waiting; so a thread that samples or waits on a subprocess holds no
\* lock, a read can be made whenever no swap is under way, and a thread
\* with a dict to publish can take the lock as soon as no swap is under way:
\* a read holds it for the copy only.
C27_LockOnlyForSwap ==
    /\ [](/\ lock <=> \E t \in Threads : pc[t] = "locked"
          /\ Cardinality({t \in Threads : pc[t] = "locked"}) <= 1
          /\ ~lock => ENABLED DataRead
          /\ \A t \in Threads :
                /\ pc[t] = "locked" => ENABLED PublishSwap(t)
                /\ (pc[t] = "publish" /\ ~lock) => ENABLED PublishAcquire(t))
    /\ [][ /\ \A t \in Threads :
                /\ (pc[t] = "locked" /\ pc'[t] # "locked") =>
                      (pc'[t] = "sleep" /\ ~lock')
                /\ (pc'[t] = "locked" /\ pc[t] # "locked") =>
                      (pc[t] = "publish" /\ ~lock /\ lock')
           /\ lastRead' # lastRead => (~lock /\ ~lock') ]_vars

\* a cycle is waiting on its sources after an earlier one was published
\* and read; the lock is free and a read can be made
C27_Witness ==
    /\ \E t \in Threads : pc[t] = "sources"
    /\ lastOrigin = "cycle"
    /\ ~lock
    /\ ENABLED DataRead

\* C28: the published snapshot changes only when a cycle publishes, and
\* then to the dict that cycle built, which was never the published one
\* before; a read returns the published snapshot and leaves it alone, so
\* two reads with no publication between them return equal snapshots,
\* whatever the reader did to the first.
C28_ReplacedNotMutated ==
    [][ /\ _data' # _data =>
             \E t \in Threads :
                 pc[t] = "locked" /\ pc'[t] = "sleep" /\ _data' = d[t]
        /\ DataRead => (lastRead' = _data /\ _data' = _data)
        /\ ReaderModify => (_data' = _data /\ lastRead' # lastRead) ]_vars

\* the reader has changed two keys of a snapshot it received from a cycle,
\* and the published snapshot still holds what the cycle sampled
C28_Witness ==
    /\ origin = "cycle"
    /\ lastOrigin = "cycle"
    /\ lastRead.wlan_ip = "edited"
    /\ lastRead.cpu_pct = 99
    /\ _data.wlan_ip = "192.168.0.7"
    /\ _data.cpu_pct # 99
    /\ lastRead.collected_at = _data.collected_at

\* C30: a cycle that has begun only moves on, from its start to its sources
\* and from there to its publication; the subprocesses it starts carry a
\* timeout of at most 5 seconds, and a helper that timed out leaves the
\* sentinel of its field.
C30_CycleRunsToPublication ==
    [][ \A t \in Threads :
          /\ pc[t] \in {"begin", "sources"} =>
                pc'[t] \in {pc[t], NextInCycle(pc[t])}
          /\ (pc[t] = "sources" /\ pc'[t] = "publish") =>
                /\ \A i \in DOMAIN started'[t] : started'[t][i].timeout <= 5
                /\ Readings(env[t]).wlan.kind = "timeout" =>
                      d'[t].wlan_ip = "disconnected" ]_vars

(***************************************************************************)
(* The command registry.  call is the last run_command: the name, args and  *)
(* subprocess outcome it was given, what the handler did and what           *)
(* run_command did.                                                         *)
(***************************************************************************)
Called == calls > 0

\* C7: for a name that is no key of the registry, and any args, run_command
\* returns an object whose error field is "unknown command: <name>", raises
\* nothing, and calls no handler and starts no subprocess.
C7_UnknownCommandIsAnError ==
    (Called /\ call.name \notin COMMANDS) =>
        /\ ~call.outcome.raised
        /\ "error" \in DOMAIN call.outcome.value
        /\ call.outcome.value.error = "unknown command: " \o call.name
        /\ call.handlers = 0
        /\ call.outcome.ran = <<>>

\* an unregistered name was asked for with args that are not even a mapping
C7_Witness ==
    /\ Called
    /\ call.name = "exec"
    /\ call.args.type = "str"
    /\ call.outcome.value = [error |-> "unknown command: exec"]

\* C8: for a registered name run_command never raises: a handler that raises
\* gives exactly {error: <message>, command: <name>}; a handler that returns
\* gives its result carrying command = <name> and a timestamp.
C8_RegisteredNeverRaises ==
    (Called /\ call.name \in COMMANDS) =>
        /\ call.handlers = 1
        /\ ~call.outcome.raised
        /\ call.handler.raised =>
               call.outcome.value = [error |-> call.handler.exc,
                                     command |-> call.name]
        /\ ~call.handler.raised =>
               /\ {"command", "timestamp"} \subseteq DOMAIN call.outcome.value
               /\ call.outcome.value.command = call.name
               /\ \A k \in DOMAIN call.handler.value \ {"timestamp"} :
                     call.outcome.value[k] = call.handler.value[k]

\* restart-service was given a string for args and its handler raised
C8_Witness ==
    /\ Called
    /\ call.name = "restart-service"
    /\ call.args.type = "str"
    /\ call.handler.raised
    /\ call.outcome.value.command = "restart-service"

CommandResultFields == {"stdout", "stderr", "rc", "command", "timestamp"}
ServiceStatusFields == {"services", "command", "timestamp"}

\* C9 as stated: every result of run_command for a registered command is a
\* full CommandResult (stdout, stderr, return code, command, timestamp) or
\* an object with an error field.
C9_TwoShapes ==
    (Called /\ call.name \in COMMANDS) =>
        \/ "error" \in DOMAIN call.outcome.value
        \/ CommandResultFields \subseteq DOMAIN call.outcome.value

\* C9: every result of run_command for a registered command is a full
\* CommandResult, or the service-status document (services, command,
\* timestamp, and none of stdout, stderr, return code), or an object with
\* an error field; the second shape is returned by service-status only and
\* a CommandResult never has only some of stdout, stderr and return code.
C9_ThreeShapes ==
    (Called /\ call.name \in COMMANDS) =>
        LET fields == DOMAIN call.outcome.value
        IN  \/ "error" \in fields
            \/ fields = CommandResultFields
            \/ /\ call.name = "service-status"
               /\ fields = ServiceStatusFields

\* service-status answered with its document, which has no stdout
C9_Witness ==
    /\ Called
    /\ call.name = "service-status"
    /\ ~call.handler.raised
    /\ DOMAIN call.outcome.value = ServiceStatusFields
    /\ call.outcome.value.services["suricata"] = "inactive"

TimeoutRecord == [stdout |-> "", stderr |-> "command timed out", rc |-> -1]

\* C10: _run answers a subprocess that exceeds its timeout with the record
\* {stdout: "", stderr: "command timed out", rc: -1}, returned and not
\* raised, and a handler that runs a single command returns that record.
C10_TimeoutIsAValue ==
    /\ \A out \in SubprocessOutcomes \cup ServiceStates :
          out.kind = "timeout" => cmd_run(out) = Returned(TimeoutRecord, <<>>)
    /\ ( /\ Called
         /\ call.name \in COMMANDS \ {"service-status"}
         /\ Len(call.handler.ran) = 1
         /\ call.out.kind = "timeout" )
        => /\ ~call.handler.raised
           /\ call.handler.value = TimeoutRecord

\* the one subprocess of network-scan timed out
C10_Witness ==
    /\ Called
    /\ call.name = "network-scan"
    /\ call.out.kind = "timeout"
    /\ call.handler.ran = <<[cmd |-> "nmap -sn 192.168.0.0/24 -oG - 2>/dev/null | grep 'Status: Up'",
                             timeout |-> 60]>>
    /\ call.outcome.value.rc = -1

\* C11: _run never raises, whatever the subprocess invocation does (exit,
\* non-zero exit, timeout, failure to spawn or to decode): the handler that
\* called it always gets a record with stdout, stderr and a return code.
C11_RunnerNeverRaises ==
    ( /\ Called
      /\ call.name \in COMMANDS \ {"service-status"}
      /\ Len(call.handler.ran) = 1 )
        => /\ ~cmd_run(call.out).raised
           /\ DOMAIN cmd_run(call.out).value = {"stdout", "stderr", "rc"}

\* what restart-service was asked to restart, and whether that is allowed
RestartTarget == DictGet(ArgsOrEmpty(call.args).map, "service", PyStr(""))
RestartTargetAllowed ==
    /\ RestartTarget.type = "str"
    /\ RestartTarget.items[1] \in
           {"kalipi-dashboard", "kalipi-agent", "fail2ban", "suricata"}

\* C12: for an args mapping whose service is missing or not in the allow-list
\* restart-service returns an error object and starts no subprocess; the
\* only subprocess it ever starts is the restart of an allowed service.
C12_RestartOnlyAllowed ==
    ( /\ Called
      /\ call.name = "restart-service"
      /\ ArgsOrEmpty(call.args).type = "dict" )
        => /\ ~RestartTargetAllowed =>
                 /\ ~call.handler.raised
                 /\ "error" \in DOMAIN call.handler.value
                 /\ "error" \in DOMAIN call.outcome.value
                 /\ call.handler.ran = <<>>
                 /\ call.outcome.ran = <<>>
           /\ call.handler.ran # <<>> =>
                 /\ RestartTargetAllowed
                 /\ call.handler.ran =
                        <<[cmd |-> "systemctl restart " \o RestartTarget.items[1],
                           timeout |-> 30]>>

\* restart-service was asked for ssh, which is monitored but not restartable
C12_Witness ==
    /\ Called
    /\ call.name = "restart-service"
    /\ call.args = ArgDict([service |-> PyStr("ssh")])
    /\ call.handler.ran = <<>>
    /\ "error" \in DOMAIN call.outcome.value

\* the state a service query reported: its output, "unknown" when it gave
\* none or failed
ReportedState(out) ==
    IF out.kind = "exit" /\ out.text # "" THEN out.text ELSE "unknown"

\* C17: in service-status the failure of one service's query (a timeout or
\* any other failure of _run) does not abort the others: the result has an
\* entry for every service, "unknown" for the failed one and the reported
\* state for the others.
C17_ServiceQueriesIndependent ==
    (Called /\ call.name = "service-status") =>
        /\ ~call.handler.raised
        /\ "services" \in DOMAIN call.outcome.value
        /\ \A i \in 1..Len(StatusServices) :
              LET u == StatusServices[i]
              IN  /\ u \in DOMAIN call.outcome.value.services
                  /\ call.outcome.value.services[u] = ReportedState(call.outs[u])

\* C18: the result of run_command("service-status") maps exactly the five
\* monitored service names to the states reported for them and carries
\* command = "service-status" and a timestamp.
C18_FiveServicesMapped ==
    (Called /\ call.name = "service-status") =>
        /\ {"services", "command", "timestamp"} \subseteq DOMAIN call.outcome.value
        /\ call.outcome.value.command = "service-status"
        /\ DOMAIN call.outcome.value.services =
               {"ssh", "tailscaled", "fail2ban", "suricata", "auditd"}
        /\ \A u \in DOMAIN call.outcome.value.services :
               call.outcome.value.services[u] = ReportedState(call.outs[u])

\* what recent-logs was asked to show
LogSource == DictGet(ArgsOrEmpty(call.args).map, "source", PyStr("security"))

\* C19: for a source that is none of the five known names recent-logs
\* returns {error: "unknown source: <source>", available: <the five names>}
\* and runs no retrieval command.
C19_UnknownSourceListed ==
    ( /\ Called
      /\ call.name = "recent-logs"
      /\ ArgsOrEmpty(call.args).type = "dict"
      /\ ~( /\ LogSource.type = "str"
            /\ LogSource.items[1] \in
                  {"security", "suricata", "fail2ban", "dashboard", "agent"} ) )
        => /\ ~call.handler.raised
           /\ call.handler.value =
                  [error |-> "unknown source: " \o Show(LogSource),
                   available |-> <<"security", "suricata", "fail2ban",
                                   "dashboard", "agent">>]
           /\ call.handler.ran = <<>>

(***************************************************************************)
(* The HTTP API.  http is the request the handler was given and what the    *)
(* handler did with it.                                                     *)
(***************************************************************************)
ProtectedPost ==
    http.served /\ http.method = "POST" /\ http.path \in {"/api/exec", "/api/command"}

\* a token is configured: the token file exists and holds more than
\* whitespace
TokenConfigured == http.file.exists /\ http.file.text # ""

\* the request carries the token as its bearer credential
CarriesToken ==
    /\ "Authorization" \in DOMAIN http.headers
    /\ http.headers["Authorization"] = "Bearer " \o http.file.text

Unauthorized == http.sent = <<[status |-> 401, body |-> [error |-> "unauthorized"]]>>

\* C13: with no token configured the authorization check allows every
\* request; with a token configured it allows a request exactly when the
\* request carries a bearer credential equal to the token, and denies one
\* whose credential is missing or different.
C13_AccessGate ==
    ProtectedPost =>
        /\ ~TokenConfigured => (http.bodyRead /\ ~Unauthorized)
        /\ TokenConfigured => (http.bodyRead <=> CarriesToken)
        /\ (TokenConfigured /\ ~CarriesToken) => Unauthorized
        /\ Unauthorized => (TokenConfigured /\ ~CarriesToken)

\* a token is configured, the request carries it, and the request was acted on
C13_Witness ==
    /\ ProtectedPost
    /\ TokenConfigured
    /\ CarriesToken
    /\ http.bodyRead
    /\ http.ran # <<>>

\* C14: with a token configured, a POST to /api/exec or /api/command without
\* the matching bearer credential is answered 401 and nothing else happens:
\* the body is not read, no registry handler runs, no subprocess starts.
C14_DeniedHasNoEffect ==
    (ProtectedPost /\ TokenConfigured /\ ~CarriesToken) =>
        /\ Unauthorized
        /\ ~http.raised
        /\ ~http.bodyRead
        /\ http.handlers = 0
        /\ http.ran = <<>>
        /\ http.own = <<>>

\* a command was posted to /api/exec with a wrong credential
C14_Witness ==
    /\ ProtectedPost
    /\ http.path = "/api/exec"
    /\ TokenConfigured
    /\ http.headers = [Authorization |-> "Bearer wrong"]
    /\ http.body = JsonBody(ArgDict([cmd |-> PyStr("id")]))
    /\ Unauthorized

\* C15: every subprocess started because of an API request is started by a
\* handler of the COMMANDS registry.
C15_OnlyRegistryCommandsRun == http.served => http.own = <<>>

\* C16: whatever timeout the body of a POST /api/exec asks for, the timeout
\* given to the subprocess is at most 300 seconds.
C16_TimeoutCapped ==
    (http.served /\ http.method = "POST" /\ http.path = "/api/exec") =>
        \A i \in DOMAIN http.own : http.own[i].timeout <= 300

\* a day was asked for and 300 seconds were given
C16_Witness ==
    /\ http.served
    /\ http.path = "/api/exec"
    /\ http.body = JsonBody(ArgDict([cmd |-> PyStr("sleep 600"),
                                     timeout |-> PyInt(86400)]))
    /\ http.own = <<[cmd |-> "sleep 600", timeout |-> 300]>>
    /\ http.sent # <<>>
    /\ http.sent[1].body.stderr = "timed out after 300s"

\* C24: a response that carries an error field has the status of its
\* category: 401 for a refused token, 400 for an empty body, invalid JSON,
\* a missing cmd or an unknown command, and some 4xx otherwise; status 200
\* goes with no error field.
C24_FailureHasErrorStatus ==
    \A i \in DOMAIN http.sent :
        LET r == http.sent[i]
        IN  "error" \in DOMAIN r.body =>
               /\ r.status \in 400..499
               /\ r.body.error = "unauthorized" => r.status = 401
               /\ r.body.error \in {"empty body", "invalid JSON",
                                    "missing 'cmd' field"} => r.status = 400

\* the metric fields of the status document
MetricFields ==
    {"cpu_temp", "mem_total_mb", "mem_used_mb", "mem_pct", "disk_total_gb",
     "disk_used_gb", "disk_pct", "uptime", "load_avg"}

\* C25: whatever sources are unavailable, GET /api/status is answered and
\* the live metrics of the answer hold every metric field, none of them
\* null.
C25_StatusFullyPopulated ==
    (http.served /\ http.method = "GET" /\ http.path = "/api/status") =>
        /\ ~http.raised
        /\ Len(http.sent) = 1
        /\ LET live == http.sent[1].body.live
           IN  /\ MetricFields \subseteq DOMAIN live
               /\ live.cpu_temp # PyNone

\* the request got past the token check with a JSON object for a body
ObjectPosted ==
    /\ ProtectedPost
    /\ http.bodyRead
    /\ http.body.kind = "json"
    /\ http.body.value.type = "dict"

\* the object asks /api/exec for a shell command
ExecRequested ==
    /\ ObjectPosted
    /\ http.path = "/api/exec"
    /\ "cmd" \in DOMAIN http.body.value.map
    /\ http.body.value.map.cmd.type = "str"
    /\ http.body.value.map.cmd.items[1] # ""

\* the object asks /api/command for a command of the registry
CommandRequested ==
    /\ ObjectPosted
    /\ http.path = "/api/command"
    /\ "command" \in DOMAIN http.body.value.map
    /\ http.body.value.map.command.type = "str"
    /\ http.body.value.map.command.items[1] \in COMMANDS

\* C31: a request for a registry command or for a shell command gets a
\* result; the subprocesses started for it each carry a timeout of 1 to 300
\* seconds or none is left to them, and a shell command that ran out of
\* time is reported with return code -1.
C31_InvocationReturns ==
    (ExecRequested \/ CommandRequested) =>
        /\ ~http.raised
        /\ Len(http.sent) = 1
        /\ \A i \in DOMAIN http.ran : http.ran[i].timeout <= 300
        /\ (http.own # <<>> /\ http.out.kind = "timeout") =>
              http.sent[1].body.rc = -1

\* the object asks /api/command for something that is no command of the
\* registry: no name, an empty one, an unknown one, or no string at all
UnknownRequested ==
    /\ ObjectPosted
    /\ http.path = "/api/command"
    /\ ~CommandRequested

\* C33: a request to /api/command for a name outside the registry is
\* answered with one error object that names what was asked for and lists
\* the commands of the registry, and no handler is called.
C33_UnknownCommandListed ==
    UnknownRequested =>
        /\ http.handlers = 0
        /\ http.ran = <<>>
        /\ ~http.raised
        /\ Len(http.sent) = 1
        /\ DOMAIN http.sent[1].body = {"error", "available"}
        /\ http.sent[1].body.available = CommandKeys
        /\ "command" \in DOMAIN http.body.value.map =>
              http.sent[1].body.error =
                 "unknown command: " \o NameText(http.body.value.map.command)

\* C34: the result /api/exec reports for a shell command is the record the
\* _run of the registry handlers gives for the same outcome of the
\* subprocess: the stripped output and the return code, or "", "command
\* timed out" and -1.
C34_ExecAsShellRunner ==
    (ExecRequested /\ http.own # <<>> /\ http.sent # <<>>) =>
        LET outcome == Within(http.out, http.own[1].timeout)
            record == cmd_run(outcome)
            body == http.sent[1].body
        IN  ~record.raised =>
               [stdout |-> body.stdout, stderr |-> body.stderr, rc |-> body.rc]
                  = record.value

\* C35: when the token file exists, whatever it holds, a POST to /api/exec
\* or /api/command without an Authorization header is denied.
C35_OnlyAbsenceDisablesAuth ==
    (ProtectedPost /\ http.file.exists /\ "Authorization" \notin DOMAIN http.headers)
        => (Unauthorized /\ ~http.bodyRead)

\* C36: every request handled by do_GET or do_POST is answered with exactly
\* one JSON response, whatever path the handler takes: never none, never two.
C36_ExactlyOneResponse ==
    http.served => (Len(http.sent) = 1 /\ ~http.raised)

(***************************************************************************)
(* Claims about the serving loop, checked under ServeSpec.                  *)
(***************************************************************************)
\* C26: while the handler of a command is in flight, a request that has
\* arrived can be taken up, without waiting for that handler to return.
C26_RequestsIndependent ==
    (RunsSubprocess(server.handling) /\ server.waiting # <<>>) =>
        ENABLED HandleBegin

(***************************************************************************)
(* Claims about the token file over time, checked under TokenSpec.          *)
(***************************************************************************)
\* the file of check c holds a token and the headers of c do not carry it
Denies(c) ==
    /\ c.file.exists
    /\ c.file.text # ""
    /\ HeaderGet(c.headers, "Authorization", "") # "Bearer " \o c.file.text

\* C32: each check is decided by the token file as it is at that check and
\* by nothing read before: it denies exactly when that file holds a token
\* the request does not carry.
C32_TokenReadAtEachCheck ==
    /\ [](auth.last.made =>
            /\ auth.last.ok <=> ~Denies(auth.last)
            /\ auth.first.ok <=> ~Denies(auth.first))
    /\ [][auth.last' # auth.last => auth'.last.file = auth.file]_vars

\* the file held s3cret at the first check, holds t2 now, and the bearer
\* of s3cret has just been denied
C32_Witness ==
    /\ auth.first.made
    /\ auth.first.file = TokenFile("s3cret")
    /\ auth.first.headers = [Authorization |-> "Bearer s3cret"]
    /\ auth.first.ok
    /\ auth.file = TokenFile("t2")
    /\ auth.last.file = TokenFile("t2")
    /\ auth.last.headers = [Authorization |-> "Bearer s3cret"]
    /\ ~auth.last.ok

(***************************************************************************)
(* Claims about the apps launcher, checked under AppsSpec.  view.touch is   *)
(* the latest touch handle_touch was given and what it did.                 *)
(***************************************************************************)
\* C37: an app flagged confirm is given to Popen only by a touch on the Yes
\* button of the dialog rendered for that app, never by a touch on a grid
\* button; a touch on Cancel clears _confirm_pending and starts nothing.
C37_ConfirmedBeforeLaunch ==
    /\ \A k \in DOMAIN view.touch.popen :
          view.touch.popen[k].confirm
              => /\ view.touch.hit._action = "confirm_yes"
                 /\ view.touch.dialog = view.touch.popen[k]
    /\ (view.touch.hit.type = "dict" /\ view.touch.hit.confirm)
          => /\ view.touch.popen = <<>>
             /\ view.touch.called = <<>>
    /\ view.touch.hit._action = "confirm_no"
          => /\ view._confirm_pending = None
             /\ view.touch.popen = <<>>
             /\ view.touch.called = <<>>

\* the Yes button of Reboot's dialog was touched and Reboot was started
C37_Witness ==
    /\ view.touch.hit._action = "confirm_yes"
    /\ view.touch.dialog = Reboot
    /\ view.touch.popen = <<Reboot>>

\* C38: a touch on Yes with an app pending starts that app exactly once and
\* clears the pending confirmation, and handle_touch never calls _launch
\* for the dialog when nothing is pending, however many touches are handled
\* between two renders.
C38_OneLaunchPerConfirmation ==
    view.touch.hit._action = "confirm_yes"
        => /\ view.touch.pending # None
           /\ view.touch.called = <<view.touch.pending>>
           /\ view.touch.popen = <<view.touch.pending>>
           /\ view._confirm_pending = None
           /\ ~view.raised

====
